---- MODULE Spec2Model ----
(***************************************************************************)
(* Credit-ledger mutation protocol of the billing service: the Consume,   *)
(* Refund and Allocate use cases running as concurrent requests, each in  *)
(* its own database session, against the credit_ledgers and               *)
(* credit_transactions tables of a READ COMMITTED relational store with   *)
(* row locks (SELECT ... FOR UPDATE) and unique indexes; the CreateInvoice *)
(* use case and the background jobs (monthly allocation, abnormal-usage   *)
(* detection, ledger reconciliation) that run on sessions of their own.   *)
(*                                                                         *)
(* Amounts and balances are values of the Numeric(18, 6) columns, counted *)
(* in units of 10^-6 credit, so they are integers here.                   *)
(***************************************************************************)
EXTENDS Integers, Sequences, FiniteSets, TLC

\* ------------------------------------------------------------------ bounds
NumProcs == 2      \* request slots that may run concurrently
MaxCmds == 3       \* commands submitted in one behaviour
MaxAmount == 2     \* largest amount a command carries
MaxFaults == 1     \* lower-layer exceptions injected in one behaviour
NumTenants == 2    \* tenant ids
NumKeys == 3       \* idempotency keys
MaxClock == 1      \* largest value datetime.utcnow() reaches
NumMonths == 2     \* billing months
MaxRuns == 2       \* run_once calls started in one behaviour
MaxCrashes == 1    \* worker processes killed in one behaviour

Procs == 1..NumProcs
Tenants == 1..NumTenants
Keys == 1..NumKeys
Amounts == 1..MaxAmount
Ops == {"consume", "refund", "allocate"}
Months == 1..NumMonths

VARIABLES
    ledgers,        \* committed rows of credit_ledgers
    transactions,   \* committed rows of credit_transactions
    ledgerSeq,      \* autoincrement sequence of credit_ledgers.id
    txSeq,          \* autoincrement sequence of credit_transactions.id
    now,            \* datetime.utcnow()
    pc,             \* position of each request in its handler
    cmd,            \* the command DTO of each request
    loc,            \* handler locals: ledger, balance_before, balance_after
    pend,           \* writes flushed by the session and not yet committed
    rowLocks,       \* ledger row locks held by each session
    result,         \* Result returned by execute()
    hist,           \* per request: what it observed (read by the properties)
    origResp,       \* per key: the response returned by the request that wrote it
    applied,        \* per key: committed ledger balance updates made under it
    started,        \* commands submitted so far
    faults,         \* exceptions injected so far
    tenantsUsed,    \* tenant ids submitted so far are 1..tenantsUsed
    keysUsed,       \* idempotency keys submitted so far are 1..keysUsed
    subscriptions,  \* rows of subscriptions
    invoices,       \* committed rows of invoices
    invoiceSeq,     \* autoincrement sequence of invoices.id
    anomalies,      \* committed rows of usage_anomalies
    anomalySeq,     \* autoincrement sequence of usage_anomalies.id
    wpc,            \* position of each monthly allocation worker in run_once
    job,            \* run_once locals of each monthly allocation worker
    runs,           \* background runs started so far
    crashes,        \* worker processes killed so far
    loop            \* run_forever of the worker in each slot: position and locals

\* what the background jobs and CreateInvoice add to the state
jobVars == <<subscriptions, invoices, invoiceSeq, anomalies, anomalySeq, wpc, job,
             runs, crashes, loop>>

vars == <<ledgers, transactions, ledgerSeq, txSeq, now, pc, cmd, loc, pend,
          rowLocks, result, hist, origResp, applied, started, faults, tenantsUsed,
          keysUsed, jobVars>>

\* ------------------------------------------------------------ result type
NoResult == [kind |-> "none"]
ReturnOk(v) == [kind |-> "ok", value |-> v]
ReturnErr(code) == [kind |-> "err", code |-> code]

NoResp == [transaction_id |-> 0]
NoCmd == [op |-> "none", tenant_id |-> 0, amount |-> 0, idempotency_key |-> 0]
NoLoc == [ledger_id |-> 0, balance_before |-> 0, balance_after |-> 0, created_at |-> 0]
NoPend == [ledger |-> {}, tx |-> {}, balance |-> {}, invoice |-> {}, anomaly |-> {}]
NoHist == [startVer |-> 0, startBal |-> -1, keyFresh |-> FALSE, replay |-> FALSE,
           locked |-> FALSE, lockedBal |-> 0, inserted |-> FALSE, raceLost |-> FALSE,
           faulted |-> FALSE, cancelled |-> FALSE]

\* ------------------------------------------------------ billing calendar
\* A datetime of the billing calendar is the month (counted from the first
\* month of the model, so it stands for year and month), the day in it and the
\* time of day.
\* MonthlyAllocationWorker._get_billing_period(year, month): first day of the
\* month at 00:00:00 to its last day (monthrange) at 23:59:59
_get_billing_period(month) ==
    [period_start |-> [month |-> month, day |-> "first", time |-> "00:00:00"],
     period_end |-> [month |-> month, day |-> "last", time |-> "23:59:59"]]

\* datetime.date()
date(dt) == [month |-> dt.month, day |-> dt.day]

\* f"allocation:{tenant_id}:{period_str}", period_str = strftime("%Y-%m")
_generate_idempotency_key(tenant_id, period_start) ==
    <<"allocation", tenant_id, period_start.month>>

AllocationKeys ==
    {_generate_idempotency_key(t, _get_billing_period(m).period_start) :
        t \in Tenants, m \in Months}

NoJob == [period |-> _get_billing_period(0), todo |-> <<>>, total_subscriptions |-> 0,
          successful_allocations |-> 0, failed_allocations |-> 0,
          invoices_created |-> 0]

\* a slot in which no run_forever loop is running
NoLoop == [worker |-> "none", lpc |-> "off", current_month |-> 0,
           last_processed_month |-> 0, wake_at |-> 0, logged |-> "started",
           processed |-> {}, faults_before |-> 0,
           balances_before |-> [t \in Tenants |-> -1],
           rows_before |-> [transactions |-> {}, invoices |-> {}], alerts |-> {}]

FailedCode(op) ==
    CASE op = "consume"  -> "CONSUME_CREDIT_FAILED"
      [] op = "refund"   -> "REFUND_CREDIT_FAILED"
      [] op = "allocate" -> "ALLOCATE_CREDIT_FAILED"
      [] op = "create_invoice" -> "CREATE_INVOICE_FAILED"
      [] op = "detect" -> "DETECTION_FAILED"

TransactionType(op) == op

\* ---------------------------------------------------------- domain rules
\* the balance check testing only for an empty balance
InsufficientCredit_EmptyOnly(balance, amount) == balance <= 0

\* the balance check refusing a consume of exactly the balance
InsufficientCredit_Inclusive(balance, amount) == balance <= amount

\* consume_credit.py: "if ledger.balance < command.amount"
InsufficientCredit(balance, amount) == balance < amount

\* balance_after: consume subtracts, refund and allocate add
BalanceAfter(op, balance_before, amount) ==
    IF op = "consume" THEN balance_before - amount ELSE balance_before + amount

\* CheckConstraint('balance >= 0', name='balance_non_negative')
balance_non_negative(balance) == balance >= 0

\* sign convention of the ledger balance
SignedAmount(tx) ==
    IF tx.transaction_type = "consume" THEN 0 - tx.amount ELSE tx.amount

RECURSIVE SumSigned(_)
SumSigned(S) ==
    IF S = {} THEN 0
    ELSE LET tx == CHOOSE x \in S : TRUE
         IN SignedAmount(tx) + SumSigned(S \ {tx})

\* ------------------------------------------------------- repository reads
\* transaction_repo.get_by_idempotency_key: committed rows (own session has
\* written nothing when the handler calls it)
get_by_idempotency_key(key) == {tx \in transactions : tx.idempotency_key = key}

\* the idempotency_key column declared without unique=True
UniqueViolation_NotUnique(key) == FALSE

\* idempotency_key: Field(unique=True): an INSERT of a key that a committed
\* row already has violates the unique index
UniqueViolation(key) == get_by_idempotency_key(key) # {}

\* rows of credit_ledgers visible to a statement of session p
VisibleLedgers(p, tenant) ==
    {l \in ledgers \cup pend[p].ledger : l.tenant_id = tenant}

\* the ledger read without with_for_update(): nothing to wait for
LockedByOther_NoForUpdate(p, ledger_id) == FALSE

\* stmt.with_for_update(): the row lock another session holds
LockedByOther(p, ledger_id) ==
    \E q \in Procs \ {p} : ledger_id \in rowLocks[q]

TxOfTenant(tenant) == {tx \in transactions : tx.tenant_id = tenant}

CommittedBalance(tenant) ==
    IF \E l \in ledgers : l.tenant_id = tenant
    THEN (CHOOSE l \in ledgers : l.tenant_id = tenant).balance
    ELSE -1

\* ------------------------------------------------------------ response DTOs
\* ConsumeCredit._to_response_dto / RefundCredit._to_response_dto
_to_response_dto(tx) ==
    [transaction_id |-> tx.id, tenant_id |-> tx.tenant_id,
     transaction_type |-> tx.transaction_type, amount |-> tx.amount,
     balance_before |-> tx.balance_before, balance_after |-> tx.balance_after,
     idempotency_key |-> tx.idempotency_key, created_at |-> tx.created_at]

\* AllocateCredits._to_response_dto
_to_allocate_response_dto(tx) ==
    [transaction_id |-> tx.id, tenant_id |-> tx.tenant_id, amount |-> tx.amount,
     balance_before |-> tx.balance_before, balance_after |-> tx.balance_after,
     idempotency_key |-> tx.idempotency_key, created_at |-> tx.created_at]

\* a replay that recomputes the snapshots from the current ledger
ReplayResponse_Recomputed(op, tx) ==
    LET current == CommittedBalance(tx.tenant_id)
        dto == IF op = "allocate" THEN _to_allocate_response_dto(tx)
               ELSE _to_response_dto(tx)
    IN [dto EXCEPT !.balance_before = current,
                   !.balance_after = BalanceAfter(tx.transaction_type, current, tx.amount)]

\* "return Return.ok(self._to_response_dto(existing_transaction))"
ReplayResponse(op, tx) ==
    IF op = "allocate" THEN _to_allocate_response_dto(tx) ELSE _to_response_dto(tx)

\* the response built after commit from the created row and the handler's
\* balance_before / balance_after locals
BuildResponse(op, tx, balance_before, balance_after) ==
    IF op = "allocate"
    THEN [transaction_id |-> tx.id, tenant_id |-> tx.tenant_id, amount |-> tx.amount,
          balance_before |-> balance_before, balance_after |-> balance_after,
          idempotency_key |-> tx.idempotency_key, created_at |-> tx.created_at]
    ELSE [transaction_id |-> tx.id, tenant_id |-> tx.tenant_id,
          transaction_type |-> tx.transaction_type, amount |-> tx.amount,
          balance_before |-> balance_before, balance_after |-> balance_after,
          idempotency_key |-> tx.idempotency_key, created_at |-> tx.created_at]

\* ----------------------------------------------------------------- Init
Init ==
    /\ ledgers = {}
    /\ transactions = {}
    /\ ledgerSeq = 0
    /\ txSeq = 0
    /\ now = 0
    /\ pc = [p \in Procs |-> "idle"]
    /\ cmd = [p \in Procs |-> NoCmd]
    /\ loc = [p \in Procs |-> NoLoc]
    /\ pend = [p \in Procs |-> NoPend]
    /\ rowLocks = [p \in Procs |-> {}]
    /\ result = [p \in Procs |-> NoResult]
    /\ hist = [p \in Procs |-> NoHist]
    /\ origResp = [k \in Keys |-> NoResp]
    /\ applied = [k \in Keys |-> 0]
    /\ started = 0
    /\ faults = 0
    /\ tenantsUsed = 0
    /\ keysUsed = 0
    /\ subscriptions = {}
    /\ invoices = {}
    /\ invoiceSeq = 0
    /\ anomalies = {}
    /\ anomalySeq = 0
    /\ wpc = [p \in Procs |-> "stopped"]
    /\ job = [p \in Procs |-> NoJob]
    /\ runs = 0
    /\ crashes = 0
    /\ loop = [p \in Procs |-> NoLoop]

\* --------------------------------------------------------------- actions
Max(a, b) == IF a >= b THEN a ELSE b

\* A request arrives: the route builds the command DTO on a fresh session.
\* Tenant ids and idempotency keys are opaque strings, so a command names a
\* tenant (key) already seen or the next one not yet seen; the request
\* runs in the first free slot.
Submit(p) ==
    /\ pc[p] = "idle"
    /\ \A q \in Procs : q < p => pc[q] # "idle"
    /\ started < MaxCmds
    /\ \E op \in Ops, t \in Tenants, a \in Amounts, k \in Keys :
          /\ t <= tenantsUsed + 1
          /\ k <= keysUsed + 1
          /\ tenantsUsed' = Max(tenantsUsed, t)
          /\ keysUsed' = Max(keysUsed, k)
          /\ cmd' = [cmd EXCEPT ![p] = [op |-> op, tenant_id |-> t, amount |-> a,
                                        idempotency_key |-> k]]
          /\ hist' = [hist EXCEPT ![p] =
                        [NoHist EXCEPT !.startVer = Cardinality(TxOfTenant(t)),
                                       !.startBal = CommittedBalance(t),
                                       !.keyFresh = (get_by_idempotency_key(k) = {})]]
    /\ pc' = [pc EXCEPT ![p] = "check_idempotency"]
    /\ loc' = [loc EXCEPT ![p] = NoLoc]
    /\ result' = [result EXCEPT ![p] = NoResult]
    /\ started' = started + 1
    /\ UNCHANGED <<ledgers, transactions, ledgerSeq, txSeq, now, pend, rowLocks,
                   origResp, applied, faults,
                   jobVars>>

\* Step 1: idempotency lookup; an existing row is returned as the response.
CheckIdempotency(p) ==
    /\ pc[p] = "check_idempotency"
    /\ LET existing == get_by_idempotency_key(cmd[p].idempotency_key)
       IN IF existing # {}
          THEN /\ result' = [result EXCEPT ![p] =
                     ReturnOk(ReplayResponse(cmd[p].op, CHOOSE tx \in existing : TRUE))]
               /\ pc' = [pc EXCEPT ![p] = "returned"]
               /\ hist' = [hist EXCEPT ![p].replay = TRUE]
          ELSE /\ pc' = [pc EXCEPT ![p] = "get_ledger"]
               /\ UNCHANGED <<result, hist>>
    /\ UNCHANGED <<ledgers, transactions, ledgerSeq, txSeq, now, cmd, loc, pend,
                   rowLocks, origResp, applied, started, faults, tenantsUsed, keysUsed,
                   jobVars>>

\* The handler code that runs, without suspension, once the locked ledger is
\* in hand: balance check (Consume), balance_before / balance_after, and the
\* construction of the CreditTransaction (created_at = datetime.utcnow()).
WithLedger(p, l) ==
    IF cmd[p].op = "consume" /\ InsufficientCredit(l.balance, cmd[p].amount)
    THEN /\ result' = [result EXCEPT ![p] = ReturnErr("INSUFFICIENT_CREDIT")]
         /\ pc' = [pc EXCEPT ![p] = "returned"]
         /\ loc' = [loc EXCEPT ![p] = [NoLoc EXCEPT !.ledger_id = l.id]]
         /\ now' = now
    ELSE /\ \E t \in {now} \cup (IF now < MaxClock THEN {now + 1} ELSE {}) :
               /\ now' = t
               /\ loc' = [loc EXCEPT ![p] =
                     [ledger_id |-> l.id, balance_before |-> l.balance,
                      balance_after |-> BalanceAfter(cmd[p].op, l.balance, cmd[p].amount),
                      created_at |-> t]]
         /\ pc' = [pc EXCEPT ![p] = "create_transaction"]
         /\ result' = result

\* Step 2: ledger_repo.get_by_tenant_id(tenant_id, for_update=True).  The
\* statement waits while another session holds the row lock, then reads the
\* latest committed version of the row.
GetLedger(p) ==
    /\ pc[p] = "get_ledger"
    /\ LET found == {l \in ledgers : l.tenant_id = cmd[p].tenant_id}
       IN IF found = {}
          THEN /\ IF cmd[p].op = "allocate"
                  THEN /\ pc' = [pc EXCEPT ![p] = "create_ledger"]
                       /\ result' = result
                  ELSE /\ pc' = [pc EXCEPT ![p] = "returned"]
                       /\ result' = [result EXCEPT ![p] = ReturnErr("LEDGER_NOT_FOUND")]
               /\ UNCHANGED <<loc, now, rowLocks, hist>>
          ELSE \E l \in found :
               /\ ~LockedByOther(p, l.id)
               /\ rowLocks' = [rowLocks EXCEPT ![p] = @ \cup {l.id}]
               /\ hist' = [hist EXCEPT ![p].locked = TRUE, ![p].lockedBal = l.balance]
               /\ WithLedger(p, l)
    /\ UNCHANGED <<ledgers, transactions, ledgerSeq, txSeq, cmd, pend, origResp, applied,
                   started, faults, tenantsUsed, keysUsed,
                   jobVars>>

\* a rollback that discards the flushed writes and leaves the transaction,
\* and with it the row locks, open
RolledBack_KeepsLocks(p) ==
    /\ pend' = [pend EXCEPT ![p] = NoPend]
    /\ UNCHANGED rowLocks

\* session.rollback(): flushed writes are discarded, row locks released
RolledBack(p) ==
    /\ pend' = [pend EXCEPT ![p] = NoPend]
    /\ rowLocks' = [rowLocks EXCEPT ![p] = {}]

\* the except block returning the error without uow.rollback()
Failed_NoRollback(p) ==
    /\ UNCHANGED <<pend, rowLocks>>
    /\ result' = [result EXCEPT ![p] = ReturnErr(FailedCode(cmd[p].op))]
    /\ pc' = [pc EXCEPT ![p] = "returned"]

\* "except Exception": rollback, then the handler's *_FAILED error
Failed(p) ==
    /\ RolledBack(p)
    /\ result' = [result EXCEPT ![p] = ReturnErr(FailedCode(cmd[p].op))]
    /\ pc' = [pc EXCEPT ![p] = "returned"]

\* a ledger created with an opening balance
NewLedger_Prefunded(id, tenant_id) == [id |-> id, tenant_id |-> tenant_id, balance |-> 1]

\* CreditLedger(tenant_id=command.tenant_id, balance=Decimal("0"))
NewLedger(id, tenant_id) == [id |-> id, tenant_id |-> tenant_id, balance |-> 0]

\* credit_ledgers.tenant_id without its unique index
TenantUniqueViolation_NotUnique(tenant_id) == FALSE

\* the unique index on credit_ledgers.tenant_id: a committed row has the value
TenantUniqueViolation(tenant_id) == \E l \in ledgers : l.tenant_id = tenant_id

\* Allocate, no ledger: ledger_repo.create(CreditLedger(balance=0)).  The
\* INSERT waits for a concurrent uncommitted insert of the same tenant_id and
\* raises IntegrityError when a committed row has it (unique index).
CreateLedger(p) ==
    /\ pc[p] = "create_ledger"
    /\ \A q \in Procs \ {p} : \A l \in pend[q].ledger : l.tenant_id # cmd[p].tenant_id
    /\ ledgerSeq' = ledgerSeq + 1
    /\ IF TenantUniqueViolation(cmd[p].tenant_id)
       THEN /\ Failed(p)
       ELSE /\ pend' = [pend EXCEPT ![p].ledger =
                   {NewLedger(ledgerSeq + 1, cmd[p].tenant_id)}]
            /\ pc' = [pc EXCEPT ![p] = "refetch_ledger"]
            /\ UNCHANGED <<rowLocks, result>>
    /\ UNCHANGED <<ledgers, transactions, txSeq, now, cmd, loc, hist, origResp, applied,
                   started, faults, tenantsUsed, keysUsed,
                   jobVars>>

\* Allocate, ledger just created: "Re-fetch with lock" returns the session's
\* own row.
RefetchLedger(p) ==
    /\ pc[p] = "refetch_ledger"
    /\ \E l \in VisibleLedgers(p, cmd[p].tenant_id) :
          /\ ~LockedByOther(p, l.id)
          /\ rowLocks' = [rowLocks EXCEPT ![p] = @ \cup {l.id}]
          /\ hist' = [hist EXCEPT ![p].locked = TRUE, ![p].lockedBal = l.balance]
          /\ WithLedger(p, l)
    /\ UNCHANGED <<ledgers, transactions, ledgerSeq, txSeq, cmd, pend, origResp, applied,
                   started, faults, tenantsUsed, keysUsed,
                   jobVars>>

\* transaction_repo.create(transaction): INSERT, flush, refresh.  The INSERT
\* waits for a concurrent uncommitted insert of the same idempotency_key and
\* raises IntegrityError when a committed row has it (unique index); the
\* handler's "except Exception" turns that into *_FAILED.
CreateTransaction(p) ==
    /\ pc[p] = "create_transaction"
    /\ \A q \in Procs \ {p} :
          \A tx \in pend[q].tx : tx.idempotency_key # cmd[p].idempotency_key
    /\ txSeq' = txSeq + 1
    /\ IF UniqueViolation(cmd[p].idempotency_key)
       THEN /\ Failed(p)
            /\ hist' = [hist EXCEPT ![p].raceLost = TRUE]
       ELSE /\ pend' = [pend EXCEPT ![p].tx =
                   {[id |-> txSeq + 1, tenant_id |-> cmd[p].tenant_id,
                     ledger_id |-> loc[p].ledger_id,
                     transaction_type |-> TransactionType(cmd[p].op),
                     amount |-> cmd[p].amount,
                     balance_before |-> loc[p].balance_before,
                     balance_after |-> loc[p].balance_after,
                     idempotency_key |-> cmd[p].idempotency_key,
                     created_at |-> loc[p].created_at]}]
            /\ pc' = [pc EXCEPT ![p] = "update_balance"]
            /\ hist' = [hist EXCEPT ![p].inserted = TRUE]
            /\ UNCHANGED <<rowLocks, result>>
    /\ UNCHANGED <<ledgers, transactions, ledgerSeq, now, cmd, loc, origResp, applied,
                   started, faults, tenantsUsed, keysUsed,
                   jobVars>>

\* ledger_repo.update_balance(ledger.id, balance_after): UPDATE, flush; the
\* table's CHECK constraint rejects a negative balance.
UpdateBalance(p) ==
    /\ pc[p] = "update_balance"
    /\ IF balance_non_negative(loc[p].balance_after)
       THEN /\ pend' = [pend EXCEPT ![p].balance =
                   {<<loc[p].ledger_id, loc[p].balance_after>>}]
            /\ pc' = [pc EXCEPT ![p] = "commit"]
            /\ UNCHANGED <<rowLocks, result>>
       ELSE Failed(p)
    /\ UNCHANGED <<ledgers, transactions, ledgerSeq, txSeq, now, cmd, loc, hist,
                   origResp, applied, started, faults, tenantsUsed, keysUsed,
                   jobVars>>

\* a commit that makes the inserted rows durable and loses the balance update
CommittedLedgers_BalanceLost(p) == ledgers \cup pend[p].ledger

\* the credit_ledgers table after the session's writes are committed
CommittedLedgers(p) ==
    {IF \E w \in pend[p].balance : w[1] = l.id
     THEN [l EXCEPT !.balance = (CHOOSE w \in pend[p].balance : w[1] = l.id)[2]]
     ELSE l : l \in ledgers \cup pend[p].ledger}

\* a commit of rows written with merge-by-ledger instead of INSERT: the new
\* row takes the place of the ledger's earlier rows
CommittedTransactions_Upsert(p) ==
    {tx \in transactions : \A n \in pend[p].tx : n.ledger_id # tx.ledger_id}
        \cup pend[p].tx

\* the credit_transactions table after the session's writes are committed:
\* transaction_repo.create only adds rows (session.add, INSERT)
CommittedTransactions(p) == transactions \cup pend[p].tx

\* uow.commit(), then the response built from the created row and the locals
Commit(p) ==
    /\ pc[p] = "commit"
    /\ ledgers' = CommittedLedgers(p)
    /\ transactions' = CommittedTransactions(p)
    /\ pend' = [pend EXCEPT ![p] = NoPend]
    /\ rowLocks' = [rowLocks EXCEPT ![p] = {}]
    /\ LET tx == CHOOSE x \in pend[p].tx : TRUE
           resp == BuildResponse(cmd[p].op, tx, loc[p].balance_before,
                                 loc[p].balance_after)
       IN /\ result' = [result EXCEPT ![p] = ReturnOk(resp)]
          /\ origResp' = [origResp EXCEPT ![cmd[p].idempotency_key] = resp]
    /\ applied' = [applied EXCEPT ![cmd[p].idempotency_key] =
                     @ + Cardinality(pend[p].balance)]
    /\ pc' = [pc EXCEPT ![p] = "returned"]
    /\ UNCHANGED <<ledgerSeq, txSeq, now, cmd, loc, hist, started, faults, tenantsUsed, keysUsed,
                   jobVars>>

\* the positions at which a handler is suspended in an await of a database
\* round trip
Awaiting ==
    {"check_idempotency", "get_ledger", "create_ledger", "refetch_ledger",
     "create_transaction", "update_balance", "commit",
     "invoice_exists", "invoice_number", "invoice_create", "invoice_commit",
     "get_consumption", "anomaly_exists", "anomaly_create", "detect_commit"}

\* A database round trip of the handler raises (connection lost, timeout):
\* "except Exception" rolls back and returns *_FAILED.
Fault(p) ==
    /\ pc[p] \in Awaiting
    /\ faults < MaxFaults
    /\ faults' = faults + 1
    /\ Failed(p)
    /\ hist' = [hist EXCEPT ![p].faulted = TRUE]
    /\ UNCHANGED <<ledgers, transactions, ledgerSeq, txSeq, now, cmd, loc, origResp, applied,
                   started, tenantsUsed, keysUsed,
                   jobVars>>

\* The task running the handler is cancelled while it awaits a database round
\* trip.  CancelledError is not an Exception, so "except Exception" does not
\* run: it propagates out of execute() with the session's transaction still
\* open, up to the "async with" that owns the session.
Cancel(p) ==
    /\ pc[p] \in Awaiting
    /\ faults < MaxFaults
    /\ faults' = faults + 1
    /\ pc' = [pc EXCEPT ![p] = "cancelled"]
    /\ hist' = [hist EXCEPT ![p].cancelled = TRUE]
    /\ UNCHANGED <<ledgers, transactions, ledgerSeq, txSeq, now, cmd, loc, pend, rowLocks,
                   result, origResp, applied, started, tenantsUsed, keysUsed, jobVars>>

\* The request ends: get_session() closes the session, which rolls back
\* whatever transaction is still open and releases its locks.
CloseSession(p) ==
    /\ pc[p] \in {"returned", "cancelled"}
    /\ RolledBack(p)
    /\ pc' = [pc EXCEPT ![p] = "idle"]
    /\ loc' = [loc EXCEPT ![p] = NoLoc]
    /\ UNCHANGED <<ledgers, transactions, ledgerSeq, txSeq, now, cmd, result,
                   hist, origResp, applied, started, faults, tenantsUsed, keysUsed,
                   jobVars>>

Next ==
    \E p \in Procs :
        \/ Submit(p)
        \/ CheckIdempotency(p)
        \/ GetLedger(p)
        \/ CreateLedger(p)
        \/ RefetchLedger(p)
        \/ CreateTransaction(p)
        \/ UpdateBalance(p)
        \/ Commit(p)
        \/ Fault(p)
        \/ CloseSession(p)

Spec == Init /\ [][Next]_vars

\* the same requests, any of which may also be cancelled
CancelNext == Next \/ \E p \in Procs : Cancel(p)

CancelSpec == Init /\ [][CancelNext]_vars

\* ---------------------------------------------------------- CreateInvoice
creditVars == <<ledgers, transactions, ledgerSeq, txSeq, now, origResp, applied>>
submitVars == <<started, tenantsUsed, keysUsed>>
detectVars == <<anomalies, anomalySeq>>

\* credit_price = Decimal("0.015"), in thousandths
credit_price == 15

\* the Numeric(18, 6) column rounding a value given in units of 10^-9
Numeric_18_6(x) == (x + 500) \div 1000

\* rows of invoices visible to a statement of session p
VisibleInvoices(p) == invoices \cup pend[p].invoice

\* a duplicate check that takes an invoice of any period for a duplicate
exists_for_period_AnyPeriod(p, tenant_id, billing_period_start, billing_period_end) ==
    \E i \in VisibleInvoices(p) : i.tenant_id = tenant_id

\* invoice_repo.exists_for_period: count(*) > 0
exists_for_period(p, tenant_id, billing_period_start, billing_period_end) ==
    \E i \in VisibleInvoices(p) :
        /\ i.tenant_id = tenant_id
        /\ i.billing_period_start = billing_period_start
        /\ i.billing_period_end = billing_period_end

\* invoice_repo.generate_invoice_number: the highest number of the year plus
\* one, 1 when there is none.  The number stands for "INV-YYYY-NNNNNN" of one
\* year (with six digits the highest string is the highest number).
generate_invoice_number(p) ==
    IF VisibleInvoices(p) = {} THEN 1
    ELSE (CHOOSE i \in VisibleInvoices(p) :
             \A j \in VisibleInvoices(p) : j.invoice_number <= i.invoice_number
         ).invoice_number + 1

\* InvoiceResponseDTO built from the created row
InvoiceResponse(invoice) ==
    [invoice_id |-> invoice.id, tenant_id |-> invoice.tenant_id,
     invoice_number |-> invoice.invoice_number, status |-> invoice.status,
     total_amount |-> invoice.total_amount, currency |-> invoice.currency,
     billing_period_start |->
        [month |-> invoice.billing_period_start.month,
         day |-> invoice.billing_period_start.day, time |-> "00:00:00"],
     billing_period_end |->
        [month |-> invoice.billing_period_end.month,
         day |-> invoice.billing_period_end.day, time |-> "23:59:59"]]

\* CreateInvoiceCommandDTO
InvoiceCommand(tenant_id, period, total_amount) ==
    [op |-> "create_invoice", tenant_id |-> tenant_id, amount |-> total_amount,
     billing_period_start |-> period.period_start,
     billing_period_end |-> period.period_end]

\* A caller runs CreateInvoice on a fresh session.
SubmitInvoice(p) ==
    /\ pc[p] = "idle"
    /\ started < MaxCmds
    /\ \E t \in Tenants, m \in Months, a \in Amounts :
          /\ t <= tenantsUsed + 1
          /\ tenantsUsed' = Max(tenantsUsed, t)
          /\ cmd' = [cmd EXCEPT ![p] = InvoiceCommand(t, _get_billing_period(m), a)]
    /\ hist' = [hist EXCEPT ![p] = NoHist]
    /\ pc' = [pc EXCEPT ![p] = "invoice_exists"]
    /\ loc' = [loc EXCEPT ![p] = NoLoc]
    /\ result' = [result EXCEPT ![p] = NoResult]
    /\ started' = started + 1
    /\ UNCHANGED <<creditVars, pend, rowLocks, faults, keysUsed, jobVars>>

\* Step 1: duplicate check; an existing invoice of the tenant and period is
\* answered with INVOICE_ALREADY_EXISTS.
InvoiceExists(p) ==
    /\ pc[p] = "invoice_exists"
    /\ IF exists_for_period(p, cmd[p].tenant_id, date(cmd[p].billing_period_start),
                            date(cmd[p].billing_period_end))
       THEN /\ result' = [result EXCEPT ![p] = ReturnErr("INVOICE_ALREADY_EXISTS")]
            /\ pc' = [pc EXCEPT ![p] = "returned"]
       ELSE /\ pc' = [pc EXCEPT ![p] = "invoice_number"]
            /\ result' = result
    /\ UNCHANGED <<creditVars, submitVars, cmd, loc, pend, rowLocks, hist, faults, jobVars>>

\* Step 2: invoice_repo.generate_invoice_number()
GenerateInvoiceNumber(p) ==
    /\ pc[p] = "invoice_number"
    /\ loc' = [loc EXCEPT ![p] = [invoice_number |-> generate_invoice_number(p)]]
    /\ pc' = [pc EXCEPT ![p] = "invoice_create"]
    /\ UNCHANGED <<creditVars, submitVars, cmd, pend, rowLocks, result, hist, faults,
                   jobVars>>

\* Step 3: invoice_repo.create(invoice): INSERT, flush, refresh.  The INSERT
\* waits for a concurrent uncommitted insert of the same invoice_number and
\* raises IntegrityError when a committed row has it (unique index);
\* "except Exception" turns that into CREATE_INVOICE_FAILED.
InvoiceCreate(p) ==
    /\ pc[p] = "invoice_create"
    /\ \A q \in Procs \ {p} :
          \A i \in pend[q].invoice : i.invoice_number # loc[p].invoice_number
    /\ invoiceSeq' = invoiceSeq + 1
    /\ IF \E i \in invoices : i.invoice_number = loc[p].invoice_number
       THEN /\ Failed(p)
            /\ hist' = [hist EXCEPT ![p].raceLost = TRUE]
       ELSE /\ pend' = [pend EXCEPT ![p].invoice =
                   {[id |-> invoiceSeq + 1, tenant_id |-> cmd[p].tenant_id,
                     invoice_number |-> loc[p].invoice_number, status |-> "draft",
                     total_amount |-> Numeric_18_6(cmd[p].amount), currency |-> "USD",
                     billing_period_start |-> date(cmd[p].billing_period_start),
                     billing_period_end |-> date(cmd[p].billing_period_end)]}]
            /\ pc' = [pc EXCEPT ![p] = "invoice_commit"]
            /\ hist' = [hist EXCEPT ![p].inserted = TRUE]
            /\ UNCHANGED <<rowLocks, result>>
    /\ UNCHANGED <<creditVars, submitVars, cmd, loc, faults, subscriptions, loop, invoices,
                   detectVars, wpc, job, runs, crashes>>

\* Step 4: uow.commit(), then the response built from the created row
InvoiceCommit(p) ==
    /\ pc[p] = "invoice_commit"
    /\ invoices' = invoices \cup pend[p].invoice
    /\ pend' = [pend EXCEPT ![p] = NoPend]
    /\ rowLocks' = [rowLocks EXCEPT ![p] = {}]
    /\ result' = [result EXCEPT ![p] =
                    ReturnOk(InvoiceResponse(CHOOSE i \in pend[p].invoice : TRUE))]
    /\ pc' = [pc EXCEPT ![p] = "returned"]
    /\ UNCHANGED <<creditVars, submitVars, cmd, loc, hist, faults, subscriptions, loop,
                   invoiceSeq, detectVars, wpc, job, runs, crashes>>

\* one request at a time: the four command handlers on one session after the
\* other, any database round trip of which may raise
SequentialNext ==
    \E p \in {1} :
        \/ Submit(p)
        \/ SubmitInvoice(p)
        \/ CheckIdempotency(p)
        \/ GetLedger(p)
        \/ CreateLedger(p)
        \/ RefetchLedger(p)
        \/ CreateTransaction(p)
        \/ UpdateBalance(p)
        \/ Commit(p)
        \/ InvoiceExists(p)
        \/ GenerateInvoiceNumber(p)
        \/ InvoiceCreate(p)
        \/ InvoiceCommit(p)
        \/ Fault(p)
        \/ CloseSession(p)

SequentialSpec == Init /\ [][SequentialNext]_vars

\* ------------------------------------------------ monthly allocation worker
\* the subscriptions table: every tenant has an ACTIVE subscription, tenant 1
\* also a cancelled one and an ACTIVE one that grants no credits
SubscriptionRows ==
    {[id |-> t, tenant_id |-> t, monthly_credits |-> t, status |-> "active"] :
        t \in Tenants}
    \cup {[id |-> NumTenants + 1, tenant_id |-> 1, monthly_credits |-> 1,
           status |-> "cancelled"],
          [id |-> NumTenants + 2, tenant_id |-> 1, monthly_credits |-> 0,
           status |-> "active"]}

\* the rows of S as a list, in the order of their ids (the order in which a
\* table that is only inserted into returns them)
InIdOrder(S) ==
    CHOOSE f \in [1..Cardinality(S) -> S] :
        \A i \in DOMAIN f : \A j \in DOMAIN f : i < j => f[i].id < f[j].id

\* subscription_repo.get_active_subscriptions()
get_active_subscriptions ==
    InIdOrder({s \in subscriptions : s.status = "active"})

MonthlyInitWith(rows) ==
    /\ ledgers = {}
    /\ transactions = {}
    /\ ledgerSeq = 0
    /\ txSeq = 0
    /\ now = MaxClock
    /\ pc = [p \in Procs |-> "idle"]
    /\ cmd = [p \in Procs |-> NoCmd]
    /\ loc = [p \in Procs |-> NoLoc]
    /\ pend = [p \in Procs |-> NoPend]
    /\ rowLocks = [p \in Procs |-> {}]
    /\ result = [p \in Procs |-> NoResult]
    /\ hist = [p \in Procs |-> NoHist]
    /\ origResp = [k \in AllocationKeys |-> NoResp]
    /\ applied = [k \in AllocationKeys |-> 0]
    /\ started = 0
    /\ faults = 0
    /\ tenantsUsed = 0
    /\ keysUsed = 0
    /\ subscriptions = rows
    /\ invoices = {}
    /\ invoiceSeq = 0
    /\ anomalies = {}
    /\ anomalySeq = 0
    /\ wpc = [p \in Procs |-> "stopped"]
    /\ job = [p \in Procs |-> NoJob]
    /\ runs = 0
    /\ crashes = 0
    /\ loop = [p \in Procs |-> NoLoop]

MonthlyInit == MonthlyInitWith(SubscriptionRows)

\* a run that counts every row of the subscriptions table in its total
NewJob_CountsAllRows(month) ==
    [period |-> _get_billing_period(month),
     todo |-> get_active_subscriptions,
     total_subscriptions |-> Cardinality(subscriptions),
     successful_allocations |-> 0, failed_allocations |-> 0,
     invoices_created |-> 0]

\* the locals of run_once once the ACTIVE subscriptions have been read
NewJob(month) ==
    [period |-> _get_billing_period(month),
     todo |-> get_active_subscriptions,
     total_subscriptions |-> Len(get_active_subscriptions),
     successful_allocations |-> 0, failed_allocations |-> 0,
     invoices_created |-> 0]

\* run_once(year, month) starts: the billing period, the counters, and the
\* ACTIVE subscriptions read on the run's outer session.  Workers and months
\* are interchangeable, so the first run is for month 1 and a run starts on
\* the first worker that is not running.
RunOnce(w) ==
    /\ wpc[w] = "stopped"
    /\ \A v \in Procs : v < w => wpc[v] # "stopped"
    /\ runs < MaxRuns
    /\ runs' = runs + 1
    /\ \E m \in Months :
          /\ runs = 0 => m = 1
          /\ job' = [job EXCEPT ![w] = NewJob(m)]
    /\ wpc' = [wpc EXCEPT ![w] = "next"]
    /\ UNCHANGED <<creditVars, submitVars, pc, cmd, loc, pend, rowLocks, result, hist,
                   faults, subscriptions, loop, invoices, invoiceSeq, detectVars, crashes>>

\* failed_allocations += 1
CountFailure_Dropped(j) == j

CountFailure(j) == [j EXCEPT !.failed_allocations = @ + 1]

\* an allocator that grants one credit whatever the subscription says
AllocateCommand_OneCredit(subscription, period) ==
    [op |-> "allocate", tenant_id |-> subscription.tenant_id, amount |-> 1,
     idempotency_key |->
        _generate_idempotency_key(subscription.tenant_id, period.period_start)]

\* an allocator whose key tells a tenant's further subscriptions apart (they
\* get the key of another month)
AllocateCommand_KeyPerSubscription(subscription, period) ==
    [op |-> "allocate", tenant_id |-> subscription.tenant_id,
     amount |-> subscription.monthly_credits,
     idempotency_key |->
        IF subscription.id <= NumTenants
        THEN _generate_idempotency_key(subscription.tenant_id, period.period_start)
        ELSE <<"allocation", subscription.tenant_id,
               (period.period_start.month % NumMonths) + 1>>]

\* AllocateCreditsCommandDTO built for a subscription
AllocateCommand(subscription, period) ==
    [op |-> "allocate", tenant_id |-> subscription.tenant_id,
     amount |-> subscription.monthly_credits,
     idempotency_key |->
        _generate_idempotency_key(subscription.tenant_id, period.period_start)]

\* "for subscription in subscriptions": the loop ends and run_once returns its
\* summary, or a tenant session is opened and AllocateCredits is called with
\* the subscription's command.  The command DTO requires amount > 0: for a
\* subscription that grants nothing its construction raises, which the
\* loop's "except Exception" counts as a failed allocation.
NextSubscription(w) ==
    /\ wpc[w] = "next"
    /\ IF job[w].todo = <<>>
       THEN /\ wpc' = [wpc EXCEPT ![w] = "done"]
            /\ UNCHANGED <<job, pc, cmd, hist, result, loc>>
       ELSE LET subscription == Head(job[w].todo)
            IN IF subscription.monthly_credits <= 0
               THEN /\ job' = [job EXCEPT ![w] =
                                 [CountFailure(@) EXCEPT !.todo = Tail(job[w].todo)]]
                    /\ UNCHANGED <<wpc, pc, cmd, hist, result, loc>>
               ELSE /\ cmd' = [cmd EXCEPT ![w] =
                                 AllocateCommand(subscription, job[w].period)]
                    /\ hist' = [hist EXCEPT ![w] =
                          [NoHist EXCEPT
                             !.startVer = Cardinality(TxOfTenant(subscription.tenant_id)),
                             !.startBal = CommittedBalance(subscription.tenant_id),
                             !.keyFresh = (get_by_idempotency_key(
                                 _generate_idempotency_key(subscription.tenant_id,
                                     job[w].period.period_start)) = {})]]
                    /\ pc' = [pc EXCEPT ![w] = "check_idempotency"]
                    /\ loc' = [loc EXCEPT ![w] = NoLoc]
                    /\ result' = [result EXCEPT ![w] = NoResult]
                    /\ wpc' = [wpc EXCEPT ![w] = "allocate_credits"]
                    /\ job' = job
    /\ UNCHANGED <<creditVars, submitVars, pend, rowLocks, faults, subscriptions, loop,
                   invoices, invoiceSeq, detectVars, runs, crashes>>

\* AllocateCredits has returned.  An error is counted and "continue" leaves
\* the tenant session, which closes it; otherwise the allocation is counted
\* and CreateInvoice is called on the same session and unit of work.
AfterAllocate(w) ==
    /\ wpc[w] = "allocate_credits"
    /\ pc[w] = "returned"
    /\ IF result[w].kind = "err"
       THEN /\ job' = [job EXCEPT ![w] =
                         [CountFailure(@) EXCEPT !.todo = Tail(job[w].todo)]]
            /\ RolledBack(w)
            /\ pc' = [pc EXCEPT ![w] = "idle"]
            /\ wpc' = [wpc EXCEPT ![w] = "next"]
            /\ UNCHANGED <<cmd, result>>
       ELSE /\ job' = [job EXCEPT ![w].successful_allocations = @ + 1]
            /\ cmd' = [cmd EXCEPT ![w] =
                  InvoiceCommand(Head(job[w].todo).tenant_id, job[w].period,
                                 Head(job[w].todo).monthly_credits * credit_price)]
            /\ pc' = [pc EXCEPT ![w] = "invoice_exists"]
            /\ result' = [result EXCEPT ![w] = NoResult]
            /\ wpc' = [wpc EXCEPT ![w] = "create_invoice"]
            /\ UNCHANGED <<pend, rowLocks>>
    /\ UNCHANGED <<creditVars, submitVars, loc, hist, faults, subscriptions, loop, invoices,
                   invoiceSeq, detectVars, runs, crashes>>

\* an allocator that counts an already existing invoice as a failed allocation
CountInvoice_ExistsIsFailure(j, invoice_result) ==
    IF invoice_result.kind = "ok"
    THEN [j EXCEPT !.invoices_created = @ + 1]
    ELSE IF invoice_result.code = "INVOICE_ALREADY_EXISTS"
         THEN [j EXCEPT !.failed_allocations = @ + 1]
         ELSE j

\* "if invoice_result.is_err(): ... else: invoices_created += 1": an existing
\* invoice is logged at info level, any other error as a warning
CountInvoice(j, invoice_result) ==
    IF invoice_result.kind = "ok"
    THEN [j EXCEPT !.invoices_created = @ + 1]
    ELSE j

\* CreateInvoice has returned: a created invoice is counted, an error is only
\* logged; the tenant session is left, which closes it.
AfterInvoice(w) ==
    /\ wpc[w] = "create_invoice"
    /\ pc[w] = "returned"
    /\ job' = [job EXCEPT ![w] =
                 [CountInvoice(@, result[w]) EXCEPT !.todo = Tail(job[w].todo)]]
    /\ RolledBack(w)
    /\ pc' = [pc EXCEPT ![w] = "idle"]
    /\ wpc' = [wpc EXCEPT ![w] = "next"]
    /\ UNCHANGED <<creditVars, submitVars, cmd, loc, result, hist, faults, subscriptions, loop,
                   invoices, invoiceSeq, detectVars, runs, crashes>>

\* run_once has returned its MonthlyAllocationResultDTO
Finish(w) ==
    /\ wpc[w] = "done"
    /\ wpc' = [wpc EXCEPT ![w] = "stopped"]
    /\ UNCHANGED <<creditVars, submitVars, pc, cmd, loc, pend, rowLocks, result, hist,
                   faults, subscriptions, loop, invoices, invoiceSeq, detectVars, job, runs,
                   crashes>>

\* The worker process is killed part-way through a run: its connection drops,
\* the store rolls back its open transaction, its locals are gone.
Crash(w) ==
    /\ wpc[w] \in {"next", "allocate_credits", "create_invoice"}
    /\ crashes < MaxCrashes
    /\ crashes' = crashes + 1
    /\ RolledBack(w)
    /\ pc' = [pc EXCEPT ![w] = "idle"]
    /\ wpc' = [wpc EXCEPT ![w] = "stopped"]
    /\ job' = [job EXCEPT ![w] = NoJob]
    /\ UNCHANGED <<creditVars, submitVars, cmd, loc, result, hist, faults, subscriptions, loop,
                   invoices, invoiceSeq, detectVars, runs>>

MonthlyNext ==
    \E w \in Procs :
        \/ RunOnce(w)
        \/ NextSubscription(w)
        \/ CheckIdempotency(w)
        \/ GetLedger(w)
        \/ CreateLedger(w)
        \/ RefetchLedger(w)
        \/ CreateTransaction(w)
        \/ UpdateBalance(w)
        \/ Commit(w)
        \/ AfterAllocate(w)
        \/ InvoiceExists(w)
        \/ GenerateInvoiceNumber(w)
        \/ InvoiceCreate(w)
        \/ InvoiceCommit(w)
        \/ AfterInvoice(w)
        \/ Fault(w)
        \/ Finish(w)
        \/ Crash(w)

MonthlySpec == MonthlyInit /\ [][MonthlyNext]_vars

\* ------------------------------------------------ repeated monthly runs
\* One worker running run_once again and again, for the same billing month or
\* the next, over subscriptions of which two belong to the first tenant.

\* every tenant has an ACTIVE subscription, the first tenant a second one
\* that grants more
SharedTenantRows ==
    {[id |-> t, tenant_id |-> t, monthly_credits |-> t, status |-> "active"] :
        t \in Tenants}
    \cup {[id |-> NumTenants + 1, tenant_id |-> 1, monthly_credits |-> 2,
           status |-> "active"]}

RerunInit == MonthlyInitWith(SharedTenantRows)

RerunNext ==
    \E w \in {1} :
        \/ RunOnce(w)
        \/ NextSubscription(w)
        \/ CheckIdempotency(w)
        \/ GetLedger(w)
        \/ CreateLedger(w)
        \/ RefetchLedger(w)
        \/ CreateTransaction(w)
        \/ UpdateBalance(w)
        \/ Commit(w)
        \/ AfterAllocate(w)
        \/ InvoiceExists(w)
        \/ GenerateInvoiceNumber(w)
        \/ InvoiceCreate(w)
        \/ InvoiceCommit(w)
        \/ AfterInvoice(w)
        \/ Fault(w)
        \/ Finish(w)
        \/ Crash(w)

RerunSpec == RerunInit /\ [][RerunNext]_vars

\* ------------------------------------------------ abnormal usage detector
\* DetectAbnormalUsage.execute as run by AnomalyDetectorWorker.run_once; each
\* run has its own session.  The clock counts half hours here, so that two
\* runs started at different times can fall in the same hour.

\* ApplicationConfig.ANOMALY_HOURLY_THRESHOLD, in credits
hourly_threshold == 1

HalfHoursPerHour == 2
LastHalfHour == HalfHoursPerHour * (MaxClock + 1) + 1

\* now.replace(minute=0, second=0, microsecond=0)
TruncateToHour(t) == t - (t % HalfHoursPerHour)

\* the half hours at which the consumptions of one tenant were recorded: one
\* credit each, at the end of the first hour or at the start of the second
UsageTimes ==
    {s \in UNION {[1..n -> {HalfHoursPerHour - 1, HalfHoursPerHour}] : n \in 0..MaxAmount} :
        \A i \in DOMAIN s : \A j \in DOMAIN s : i < j => s[i] <= s[j]}

\* the ledger of a tenant that was allocated MaxAmount credits and consumed
\* one credit at each of the times
UsageLedger(tenant_id, times) ==
    [id |-> tenant_id, tenant_id |-> tenant_id, balance |-> MaxAmount - Len(times)]

UsageRows(tenant_id, times) ==
    LET first == (tenant_id - 1) * (MaxAmount + 1) + 1
    IN {[id |-> first, tenant_id |-> tenant_id, ledger_id |-> tenant_id,
         transaction_type |-> TransactionType("allocate"), amount |-> MaxAmount,
         balance_before |-> 0, balance_after |-> MaxAmount,
         idempotency_key |-> <<"allocation", tenant_id, 0>>, created_at |-> 0]}
       \cup
       {[id |-> first + i, tenant_id |-> tenant_id, ledger_id |-> tenant_id,
         transaction_type |-> TransactionType("consume"), amount |-> 1,
         balance_before |-> MaxAmount - (i - 1), balance_after |-> MaxAmount - i,
         idempotency_key |-> <<"consume", tenant_id, i>>,
         created_at |-> times[i]] : i \in DOMAIN times}

\* func.sum(CreditTransaction.amount)
RECURSIVE SumAmount(_)
SumAmount(S) ==
    IF S = {} THEN 0
    ELSE LET tx == CHOOSE x \in S : TRUE
         IN tx.amount + SumAmount(S \ {tx})

\* transaction_repo.get_consumption_by_period: per tenant the sum of the
\* CONSUME rows with start_time <= created_at < end_time, as a list (here in
\* the order of the tenant ids)
ConsumeRowsIn(tenant_id, start_time, end_time) ==
    {tx \in transactions :
        /\ tx.tenant_id = tenant_id
        /\ tx.transaction_type = "consume"
        /\ tx.created_at >= start_time
        /\ tx.created_at < end_time}

RECURSIVE ConsumptionFrom(_, _, _)
ConsumptionFrom(tenant_id, start_time, end_time) ==
    IF tenant_id > NumTenants THEN <<>>
    ELSE (IF ConsumeRowsIn(tenant_id, start_time, end_time) = {} THEN <<>>
          ELSE << <<tenant_id, SumAmount(ConsumeRowsIn(tenant_id, start_time, end_time))>> >>)
         \o ConsumptionFrom(tenant_id + 1, start_time, end_time)

get_consumption_by_period(start_time, end_time) ==
    ConsumptionFrom(1, start_time, end_time)

\* anomaly_repo.exists_for_tenant_period: committed rows and the rows this
\* session has flushed
exists_for_tenant_period(p, tenant_id, period_start, period_end) ==
    \E a \in anomalies \cup pend[p].anomaly :
        /\ a.tenant_id = tenant_id
        /\ a.period_start = period_start
        /\ a.period_end = period_end

\* a detector that also reports usage equal to the threshold
ExceedsThreshold_Inclusive(total_consumed) == total_consumed >= hourly_threshold

\* total_consumed > self.threshold
ExceedsThreshold(total_consumed) == total_consumed > hourly_threshold

DetectInit ==
    /\ \E u \in [Tenants -> UsageTimes] :
          /\ ledgers = {UsageLedger(t, u[t]) : t \in Tenants}
          /\ transactions = UNION {UsageRows(t, u[t]) : t \in Tenants}
    /\ ledgerSeq = NumTenants
    /\ txSeq = NumTenants * (MaxAmount + 1)
    /\ now = HalfHoursPerHour
    /\ pc = [p \in Procs |-> "idle"]
    /\ cmd = [p \in Procs |-> NoCmd]
    /\ loc = [p \in Procs |-> NoLoc]
    /\ pend = [p \in Procs |-> NoPend]
    /\ rowLocks = [p \in Procs |-> {}]
    /\ result = [p \in Procs |-> NoResult]
    /\ hist = [p \in Procs |-> NoHist]
    /\ origResp = [k \in AllocationKeys |-> NoResp]
    /\ applied = [k \in AllocationKeys |-> 0]
    /\ started = 0
    /\ faults = 0
    /\ tenantsUsed = NumTenants
    /\ keysUsed = 0
    /\ subscriptions = SubscriptionRows
    /\ invoices = {}
    /\ invoiceSeq = 0
    /\ anomalies = {}
    /\ anomalySeq = 0
    /\ wpc = [p \in Procs |-> "stopped"]
    /\ job = [p \in Procs |-> NoJob]
    /\ runs = 0
    /\ crashes = 0
    /\ loop = [p \in Procs |-> NoLoop]

\* time passes
DetectTick ==
    /\ now < LastHalfHour
    /\ now' = now + 1
    /\ UNCHANGED <<ledgers, transactions, ledgerSeq, txSeq, origResp, applied, submitVars,
                   pc, cmd, loc, pend, rowLocks, result, hist, faults, jobVars>>

\* run_once() with the default window: period_end is utcnow() truncated to
\* the hour, period_start one hour earlier
StartDetection(p) ==
    /\ pc[p] = "idle"
    /\ \A q \in Procs : q < p => pc[q] # "idle"
    /\ runs < MaxRuns
    /\ runs' = runs + 1
    /\ cmd' = [cmd EXCEPT ![p] =
                 [op |-> "detect",
                  period_start |-> TruncateToHour(now) - HalfHoursPerHour,
                  period_end |-> TruncateToHour(now)]]
    /\ pc' = [pc EXCEPT ![p] = "get_consumption"]
    /\ loc' = [loc EXCEPT ![p] = [consumption_data |-> <<>>, detected_anomalies |-> {}]]
    /\ result' = [result EXCEPT ![p] = NoResult]
    /\ hist' = [hist EXCEPT ![p] = NoHist]
    /\ UNCHANGED <<creditVars, submitVars, pend, rowLocks, faults, subscriptions, loop,
                   invoices, invoiceSeq, detectVars, wpc, job, crashes>>

\* Step 2: consumption_data = get_consumption_by_period(period_start, period_end)
GetConsumption(p) ==
    /\ pc[p] = "get_consumption"
    /\ loc' = [loc EXCEPT ![p].consumption_data =
                 get_consumption_by_period(cmd[p].period_start, cmd[p].period_end)]
    /\ pc' = [pc EXCEPT ![p] = "anomaly_exists"]
    /\ UNCHANGED <<creditVars, submitVars, cmd, pend, rowLocks, result, hist, faults,
                   jobVars>>

\* Step 3, one turn of the loop up to the pre-check: a tenant at or below the
\* threshold is passed over, as is one for which exists_for_tenant_period
\* finds a row; after the last tenant the loop ends
AnomalyExists(p) ==
    /\ pc[p] = "anomaly_exists"
    /\ IF loc[p].consumption_data = <<>>
       THEN /\ pc' = [pc EXCEPT ![p] = "detect_commit"]
            /\ UNCHANGED loc
       ELSE LET tenant_id == Head(loc[p].consumption_data)[1]
                total_consumed == Head(loc[p].consumption_data)[2]
            IN IF /\ ExceedsThreshold(total_consumed)
                  /\ ~exists_for_tenant_period(p, tenant_id, cmd[p].period_start,
                                               cmd[p].period_end)
               THEN /\ pc' = [pc EXCEPT ![p] = "anomaly_create"]
                    /\ UNCHANGED loc
               ELSE /\ loc' = [loc EXCEPT ![p].consumption_data = Tail(@)]
                    /\ UNCHANGED pc
    /\ UNCHANGED <<creditVars, submitVars, cmd, pend, rowLocks, result, hist, faults,
                   jobVars>>

\* anomaly_repo.create(UsageAnomaly(...)): INSERT, flush, refresh
AnomalyCreate(p) ==
    /\ pc[p] = "anomaly_create"
    /\ LET tenant_id == Head(loc[p].consumption_data)[1]
           total_consumed == Head(loc[p].consumption_data)[2]
           anomaly == [id |-> anomalySeq + 1, tenant_id |-> tenant_id,
                       anomaly_type |-> "hourly_threshold", status |-> "detected",
                       threshold_value |-> hourly_threshold,
                       actual_value |-> total_consumed,
                       period_start |-> cmd[p].period_start,
                       period_end |-> cmd[p].period_end,
                       notified_at |-> -1, resolved_at |-> -1, resolved_by |-> "none"]
       IN /\ pend' = [pend EXCEPT ![p].anomaly = @ \cup {anomaly}]
          /\ loc' = [loc EXCEPT ![p].consumption_data = Tail(@),
                                ![p].detected_anomalies = @ \cup {anomaly}]
    /\ anomalySeq' = anomalySeq + 1
    /\ pc' = [pc EXCEPT ![p] = "anomaly_exists"]
    /\ hist' = [hist EXCEPT ![p].inserted = TRUE]
    /\ UNCHANGED <<creditVars, submitVars, cmd, rowLocks, result, faults, subscriptions, loop,
                   invoices, invoiceSeq, anomalies, wpc, job, runs, crashes>>

\* Step 4 and 5: uow.commit(), then the response
DetectCommit(p) ==
    /\ pc[p] = "detect_commit"
    /\ anomalies' = anomalies \cup pend[p].anomaly
    /\ pend' = [pend EXCEPT ![p] = NoPend]
    /\ rowLocks' = [rowLocks EXCEPT ![p] = {}]
    /\ result' = [result EXCEPT ![p] =
                    ReturnOk([anomalies_detected |-> Cardinality(loc[p].detected_anomalies),
                              anomalies |-> loc[p].detected_anomalies,
                              period_start |-> cmd[p].period_start,
                              period_end |-> cmd[p].period_end,
                              threshold_used |-> hourly_threshold])]
    /\ pc' = [pc EXCEPT ![p] = "returned"]
    /\ UNCHANGED <<creditVars, submitVars, cmd, loc, hist, faults, subscriptions, loop,
                   invoices, invoiceSeq, anomalySeq, wpc, job, runs, crashes>>

DetectNext ==
    \/ DetectTick
    \/ \E p \in Procs :
          \/ StartDetection(p)
          \/ GetConsumption(p)
          \/ AnomalyExists(p)
          \/ AnomalyCreate(p)
          \/ DetectCommit(p)
          \/ Fault(p)
          \/ CloseSession(p)

DetectSpec == DetectInit /\ [][DetectNext]_vars

\* ---------------------------------------------------- ledger reconciler
\* ReconcileLedger.execute as run by LedgerReconcilerWorker.run_once, in the
\* last request slot, while commands run one after another in the first.

\* the ledger repository the use case is constructed with: the SQLAlchemy
\* adapter, or an implementation of the documented repository contract
LedgerRepos == {"SqlAlchemyCreditLedgerRepository", "CreditLedgerRepository"}

\* SqlAlchemyCreditLedgerRepository defines get_by_tenant_id, get_by_id,
\* create and update_balance
HasGetAll(ledger_repo) == ledger_repo # "SqlAlchemyCreditLedgerRepository"

\* ledger.get_all() of the repository contract: every ledger row
get_all == InIdOrder(ledgers)

\* transaction_repo.get_transaction_sum_by_ledger:
\* select(func.sum(CreditTransaction.amount)) of the ledger's rows, 0 if none
get_transaction_sum_by_ledger(ledger_id) ==
    SumAmount({tx \in transactions : tx.ledger_id = ledger_id})

LedgerDiscrepancyDTO(ledger, transaction_sum) ==
    [tenant_id |-> ledger.tenant_id, ledger_id |-> ledger.id,
     ledger_balance |-> ledger.balance, calculated_balance |-> transaction_sum,
     discrepancy |-> ledger.balance - transaction_sum]

\* "except Exception" of ReconcileLedger: the error is returned, the session
\* is left as it is
ReconciliationFailed(p) ==
    /\ result' = [result EXCEPT ![p] = ReturnErr("RECONCILIATION_FAILED")]
    /\ pc' = [pc EXCEPT ![p] = "returned"]
    /\ UNCHANGED <<pend, rowLocks>>

StartReconciliation(p) ==
    /\ pc[p] = "idle"
    /\ runs < MaxRuns
    /\ runs' = runs + 1
    /\ \E ledger_repo \in LedgerRepos :
          cmd' = [cmd EXCEPT ![p] = [op |-> "reconcile", ledger_repo |-> ledger_repo]]
    /\ pc' = [pc EXCEPT ![p] = "get_all"]
    /\ loc' = [loc EXCEPT ![p] = [ledgers |-> <<>>, total_ledgers |-> 0,
                                  discrepancies |-> <<>>]]
    /\ result' = [result EXCEPT ![p] = NoResult]
    /\ hist' = [hist EXCEPT ![p] = NoHist]
    /\ UNCHANGED <<creditVars, submitVars, pend, rowLocks, faults, subscriptions, loop,
                   invoices, invoiceSeq, detectVars, wpc, job, crashes>>

\* Step 1: ledgers = await self.ledger_repo.get_all(); a repository without
\* the method raises AttributeError
GetAll(p) ==
    /\ pc[p] = "get_all"
    /\ IF HasGetAll(cmd[p].ledger_repo)
       THEN /\ loc' = [loc EXCEPT ![p].ledgers = get_all,
                                  ![p].total_ledgers = Len(get_all)]
            /\ pc' = [pc EXCEPT ![p] = "transaction_sum"]
            /\ UNCHANGED <<pend, rowLocks, result, hist>>
       ELSE /\ ReconciliationFailed(p)
            /\ hist' = [hist EXCEPT ![p].faulted = TRUE]
            /\ UNCHANGED loc
    /\ UNCHANGED <<creditVars, submitVars, cmd, faults, jobVars>>

\* a reconciliation that repairs what it finds: the balance of a ledger that
\* differs from the sum is overwritten with the sum and committed
TransactionSum_Repairing(p) ==
    /\ pc[p] = "transaction_sum"
    /\ IF loc[p].ledgers = <<>>
       THEN /\ result' = [result EXCEPT ![p] =
                            ReturnOk([total_ledgers_checked |-> loc[p].total_ledgers,
                                      discrepancies_found |-> Len(loc[p].discrepancies),
                                      discrepancies |-> loc[p].discrepancies])]
            /\ pc' = [pc EXCEPT ![p] = "returned"]
            /\ UNCHANGED <<loc, ledgers>>
       ELSE LET ledger == Head(loc[p].ledgers)
                transaction_sum == get_transaction_sum_by_ledger(ledger.id)
            IN /\ loc' = [loc EXCEPT
                            ![p].ledgers = Tail(@),
                            ![p].discrepancies =
                                IF ledger.balance # transaction_sum
                                THEN Append(@, LedgerDiscrepancyDTO(ledger, transaction_sum))
                                ELSE @]
               /\ ledgers' = {IF l.id = ledger.id
                              THEN [l EXCEPT !.balance = transaction_sum]
                              ELSE l : l \in ledgers}
               /\ UNCHANGED <<pc, result>>
    /\ UNCHANGED <<transactions, ledgerSeq, txSeq, now, origResp, applied, submitVars,
                   cmd, pend, rowLocks, hist, faults, jobVars>>

\* Step 2, one turn of the loop: the sum of the ledger's transactions is
\* compared with the balance read in step 1; after the last ledger, step 3
\* returns the result
TransactionSum(p) ==
    /\ pc[p] = "transaction_sum"
    /\ IF loc[p].ledgers = <<>>
       THEN /\ result' = [result EXCEPT ![p] =
                            ReturnOk([total_ledgers_checked |-> loc[p].total_ledgers,
                                      discrepancies_found |-> Len(loc[p].discrepancies),
                                      discrepancies |-> loc[p].discrepancies])]
            /\ pc' = [pc EXCEPT ![p] = "returned"]
            /\ UNCHANGED loc
       ELSE LET ledger == Head(loc[p].ledgers)
                transaction_sum == get_transaction_sum_by_ledger(ledger.id)
            IN /\ loc' = [loc EXCEPT
                            ![p].ledgers = Tail(@),
                            ![p].discrepancies =
                                IF ledger.balance # transaction_sum
                                THEN Append(@, LedgerDiscrepancyDTO(ledger, transaction_sum))
                                ELSE @]
               /\ UNCHANGED <<pc, result>>
    /\ UNCHANGED <<creditVars, submitVars, cmd, pend, rowLocks, hist, faults, jobVars>>

\* a query of the reconciliation raises
ReconcileFault(p) ==
    /\ pc[p] \in {"get_all", "transaction_sum"}
    /\ faults < MaxFaults
    /\ faults' = faults + 1
    /\ ReconciliationFailed(p)
    /\ hist' = [hist EXCEPT ![p].faulted = TRUE]
    /\ UNCHANGED <<creditVars, submitVars, cmd, loc, jobVars>>

ReconcileNext ==
    \/ \E p \in {1} :
          \/ Submit(p)
          \/ CheckIdempotency(p)
          \/ GetLedger(p)
          \/ CreateLedger(p)
          \/ RefetchLedger(p)
          \/ CreateTransaction(p)
          \/ UpdateBalance(p)
          \/ Commit(p)
          \/ Fault(p)
    \/ \E p \in {NumProcs} :
          \/ StartReconciliation(p)
          \/ GetAll(p)
          \/ TransactionSum(p)
          \/ ReconcileFault(p)
    \/ \E p \in Procs : CloseSession(p)

ReconcileSpec == Init /\ [][ReconcileNext]_vars

\* ------------------------------------------------------ run_forever loops
\* The three workers' run_forever: the monthly allocator in the first slot, an
\* anomaly detector or a ledger reconciler in each other slot.  The clock
\* counts half hours of a calendar of DaysPerMonth days of HoursPerDay hours;
\* it starts at the first instant of the second month, so that the month
\* before it is the first billing month.
HoursPerDay == 1
DaysPerMonth == 4
HalfHoursPerDay == HalfHoursPerHour * HoursPerDay
HalfHoursPerMonth == HalfHoursPerDay * DaysPerMonth
LastInstant == HalfHoursPerMonth * (NumMonths + 1) - 1

\* datetime.utcnow(): (today.year, today.month) and today.day
utc_month(t) == t \div HalfHoursPerMonth + 1
utc_day(t) == (t % HalfHoursPerMonth) \div HalfHoursPerDay + 1

\* _get_billing_period() without arguments: the month before utcnow()
PreviousMonth(t) == utc_month(t) - 1

\* "today.day <= 3"
AllocationDays == 3

\* one ACTIVE subscription per tenant, and a cancelled one
DistinctSubscriptionRows ==
    {[id |-> t, tenant_id |-> t, monthly_credits |-> t, status |-> "active"] :
        t \in Tenants}
    \cup {[id |-> NumTenants + 1, tenant_id |-> 1, monthly_credits |-> 1,
           status |-> "cancelled"]}

\* the usage of the last hour before the clock starts: the first tenant
\* consumed MaxAmount credits in it
RecentUsage == [i \in 1..MaxAmount |-> HalfHoursPerMonth - 1]

ForeverInit ==
    /\ ledgers = {UsageLedger(1, RecentUsage)}
    /\ transactions = UsageRows(1, RecentUsage)
    /\ ledgerSeq = 1
    /\ txSeq = MaxAmount + 1
    /\ now = HalfHoursPerMonth
    /\ pc = [p \in Procs |-> "idle"]
    /\ cmd = [p \in Procs |-> NoCmd]
    /\ loc = [p \in Procs |-> NoLoc]
    /\ pend = [p \in Procs |-> NoPend]
    /\ rowLocks = [p \in Procs |-> {}]
    /\ result = [p \in Procs |-> NoResult]
    /\ hist = [p \in Procs |-> NoHist]
    /\ origResp = [k \in AllocationKeys |-> NoResp]
    /\ applied = [k \in AllocationKeys |-> 0]
    /\ started = 0
    /\ faults = 0
    /\ tenantsUsed = NumTenants
    /\ keysUsed = 0
    /\ subscriptions = DistinctSubscriptionRows
    /\ invoices = {}
    /\ invoiceSeq = 0
    /\ anomalies = {}
    /\ anomalySeq = 0
    /\ wpc = [p \in Procs |-> "stopped"]
    /\ job = [p \in Procs |-> NoJob]
    /\ runs = 0
    /\ crashes = 0
    /\ \E worker \in [Procs \ {1} -> {"detector", "reconciler"}] :
          loop = [p \in Procs |->
                    [NoLoop EXCEPT !.worker = IF p = 1 THEN "allocator" ELSE worker[p],
                                   !.lpc = "iterate"]]

\* time passes; a turn of a loop takes less than a unit of the clock, and a
\* sleep that is over returns within the unit
ForeverTick ==
    /\ now < LastInstant
    /\ \A p \in Procs :
          /\ loop[p].lpc \notin {"iterate", "run_once"}
          /\ loop[p].lpc = "sleep" => now < loop[p].wake_at
    /\ now' = now + 1
    /\ UNCHANGED <<ledgers, transactions, ledgerSeq, txSeq, origResp, applied, submitVars,
                   pc, cmd, loc, pend, rowLocks, result, hist, faults, jobVars>>

\* a loop that gives up on the first exception of an iteration
LoopExcept_Reraises(l, interval) == [l EXCEPT !.logged = "failed", !.lpc = "off"]

\* "except Exception as e: logger.error(...)" of run_forever, followed by
\* "await asyncio.sleep(interval)", which ends the turn of "while True"
LoopExcept(l, interval) ==
    [l EXCEPT !.logged = "failed", !.lpc = "sleep", !.wake_at = now + interval]

\* the end of a turn of "while True" in which nothing was raised
LoopSleep(l, logged, interval) ==
    [l EXCEPT !.logged = logged, !.lpc = "sleep", !.wake_at = now + interval]

\* asyncio.sleep returns once the interval has passed
Wake(p) ==
    /\ loop[p].lpc = "sleep"
    /\ now >= loop[p].wake_at
    /\ loop' = [loop EXCEPT ![p].lpc = "iterate"]
    /\ UNCHANGED <<creditVars, submitVars, pc, cmd, loc, pend, rowLocks, result, hist,
                   faults, subscriptions, invoices, invoiceSeq, detectVars, wpc, job,
                   runs, crashes>>

\* The task running run_forever is cancelled from outside, while it sleeps or
\* while it awaits inside run_once.  CancelledError is not an Exception: it
\* leaves the loop; the session of the iteration is closed on the way out.
CancelLoop(p) ==
    /\ loop[p].lpc \in {"run_once", "sleep"}
    /\ crashes < MaxCrashes
    /\ crashes' = crashes + 1
    /\ RolledBack(p)
    /\ pc' = [pc EXCEPT ![p] = "idle"]
    /\ wpc' = [wpc EXCEPT ![p] = "stopped"]
    /\ job' = [job EXCEPT ![p] = NoJob]
    /\ loop' = [loop EXCEPT ![p].lpc = "cancelled"]
    /\ UNCHANGED <<creditVars, submitVars, cmd, loc, result, hist, faults, subscriptions,
                   invoices, invoiceSeq, detectVars, runs>>

\* an allocator without the marker of the month it has processed
ShouldProcess_NoMarker(l) == utc_day(now) <= AllocationDays

\* "if today.day <= 3 and last_processed_month != current_month"
ShouldProcess(l) ==
    /\ utc_day(now) <= AllocationDays
    /\ l.last_processed_month # utc_month(now)

\* One turn of the allocator's "while True" up to its first await: the gate,
\* then either run_once() for the month before today, which opens its session
\* and reads the ACTIVE subscriptions, or the sleep.
IterateAllocator(w) ==
    /\ loop[w].worker = "allocator"
    /\ loop[w].lpc = "iterate"
    /\ IF ShouldProcess(loop[w])
       THEN /\ job' = [job EXCEPT ![w] = NewJob(PreviousMonth(now))]
            /\ wpc' = [wpc EXCEPT ![w] = "next"]
            /\ loop' = [loop EXCEPT ![w].lpc = "run_once",
                                    ![w].current_month = utc_month(now),
                                    ![w].faults_before = faults,
                                    ![w].balances_before =
                                        [t \in Tenants |-> CommittedBalance(t)],
                                    ![w].rows_before =
                                        [transactions |-> {tx.id : tx \in transactions},
                                         invoices |-> {i.id : i \in invoices}]]
       ELSE /\ loop' = [loop EXCEPT ![w] = LoopSleep(@, "skipped", HalfHoursPerDay)]
            /\ UNCHANGED <<job, wpc>>
    /\ UNCHANGED <<creditVars, submitVars, pc, cmd, loc, pend, rowLocks, result, hist,
                   faults, subscriptions, invoices, invoiceSeq, detectVars, runs,
                   crashes>>

\* a loop that sets the marker before it calls run_once
BeforeRunOnce_MarksMonth(l) ==
    [l EXCEPT !.current_month = utc_month(now), !.last_processed_month = utc_month(now)]

\* "current_month = (today.year, today.month)"; the marker is assigned only
\* after "result = await self.run_once()"
BeforeRunOnce(l) == [l EXCEPT !.current_month = utc_month(now)]

\* get_active_subscriptions() raises: it is outside the per-subscription try,
\* so the exception leaves run_once and is caught by the loop
AllocatorRaises(w) ==
    /\ loop[w].worker = "allocator"
    /\ loop[w].lpc = "iterate"
    /\ ShouldProcess(loop[w])
    /\ faults < MaxFaults
    /\ faults' = faults + 1
    /\ loop' = [loop EXCEPT ![w] =
                  LoopExcept(BeforeRunOnce(@), HalfHoursPerDay)]
    /\ UNCHANGED <<creditVars, submitVars, pc, cmd, loc, pend, rowLocks, result, hist,
                   subscriptions, invoices, invoiceSeq, detectVars, wpc, job, runs,
                   crashes>>

\* run_once has returned its summary: "last_processed_month = current_month",
\* the summary is logged, then the sleep
AllocatorReturns(w) ==
    /\ loop[w].worker = "allocator"
    /\ loop[w].lpc = "run_once"
    /\ wpc[w] = "done"
    /\ wpc' = [wpc EXCEPT ![w] = "stopped"]
    /\ loop' = [loop EXCEPT ![w] =
                  LoopSleep([@ EXCEPT !.last_processed_month = loop[w].current_month,
                                      !.processed = @ \cup {loop[w].current_month}],
                            "complete", HalfHoursPerDay)]
    /\ UNCHANGED <<creditVars, submitVars, pc, cmd, loc, pend, rowLocks, result, hist,
                   faults, subscriptions, invoices, invoiceSeq, detectVars, job, runs,
                   crashes>>

\* One turn of the detector's "while True" up to its first await: run_once()
\* opens its session and calls DetectAbnormalUsage with the default window.
IterateDetector(p) ==
    /\ loop[p].worker = "detector"
    /\ loop[p].lpc = "iterate"
    /\ loop' = [loop EXCEPT ![p].lpc = "run_once"]
    /\ cmd' = [cmd EXCEPT ![p] =
                 [op |-> "detect",
                  period_start |-> TruncateToHour(now) - HalfHoursPerHour,
                  period_end |-> TruncateToHour(now)]]
    /\ pc' = [pc EXCEPT ![p] = "get_consumption"]
    /\ loc' = [loc EXCEPT ![p] = [consumption_data |-> <<>>, detected_anomalies |-> {}]]
    /\ result' = [result EXCEPT ![p] = NoResult]
    /\ hist' = [hist EXCEPT ![p] = NoHist]
    /\ UNCHANGED <<creditVars, submitVars, pend, rowLocks, faults, subscriptions,
                   invoices, invoiceSeq, detectVars, wpc, job, runs, crashes>>

\* run_once returns to its caller: to the loop, which logs and sleeps, or to
\* whoever called it directly
Returned(l, interval) ==
    IF l.lpc = "run_once" THEN LoopSleep(l, "complete", interval) ELSE l

\* an exception leaves run_once: the loop catches it, a direct caller gets it
Raised(l, interval) ==
    IF l.lpc = "run_once" THEN LoopExcept(l, interval) ELSE l

\* the session of run_once is left: "async with" closes it
LeaveSession(p) ==
    /\ RolledBack(p)
    /\ pc' = [pc EXCEPT ![p] = "idle"]
    /\ loc' = [loc EXCEPT ![p] = NoLoc]

\* a worker that alerts for every anomaly of the window not yet notified
ToNotify_EveryUnnotified(p) ==
    result[p].value.anomalies
    \cup {a \in anomalies : /\ a.period_start = cmd[p].period_start
                            /\ a.period_end = cmd[p].period_end
                            /\ a.notified_at = -1}

\* "for anomaly_dto in response.anomalies"
ToNotify(p) == result[p].value.anomalies

\* DetectAbnormalUsage has returned.  An error is logged and run_once returns
\* 0; otherwise the anomalies of the response are notified one after another.
AfterDetection(p) ==
    /\ cmd[p].op = "detect"
    /\ pc[p] = "returned"
    /\ IF result[p].kind = "err"
       THEN /\ LeaveSession(p)
            /\ loop' = [loop EXCEPT ![p] = Returned(@, HalfHoursPerHour)]
       ELSE /\ loc' = [loc EXCEPT ![p] =
                         [to_notify |-> InIdOrder(ToNotify(p))]]
            /\ pc' = [pc EXCEPT ![p] = "send_alert"]
            /\ UNCHANGED <<pend, rowLocks, loop>>
    /\ UNCHANGED <<creditVars, submitVars, cmd, result, hist, faults, subscriptions,
                   invoices, invoiceSeq, detectVars, wpc, job, runs, crashes>>

\* a worker that marks an anomaly as notified whatever the alert returned
ShouldMark_Always(success) == TRUE

\* "if success:"
ShouldMark(success) == success

\* anomaly_repo.get_by_id, as the session sees the row
get_by_id(p, anomaly_id) ==
    {a \in pend[p].anomaly : a.id = anomaly_id}
    \cup {a \in anomalies : a.id = anomaly_id /\ \A u \in pend[p].anomaly : u.id # a.id}

\* "for anomaly_dto in response.anomalies": after the last one run_once
\* returns the count; otherwise the row is read and send_anomaly_alert is
\* called, which returns whether the alert went out
SendAlert(p) ==
    /\ pc[p] = "send_alert"
    /\ IF loc[p].to_notify = <<>>
       THEN /\ LeaveSession(p)
            /\ loop' = [loop EXCEPT ![p] = Returned(@, HalfHoursPerHour)]
       ELSE /\ IF get_by_id(p, Head(loc[p].to_notify).id) = {}
               THEN /\ loc' = [loc EXCEPT ![p].to_notify = Tail(@)]
                    /\ UNCHANGED <<pc, loop>>
               ELSE \E success \in BOOLEAN :
                       /\ loop' = [loop EXCEPT ![p].alerts = @ \cup
                                     {[id |-> Head(loc[p].to_notify).id,
                                       outcome |-> IF success THEN "success"
                                                   ELSE "failure"]}]
                       /\ IF ShouldMark(success)
                          THEN /\ pc' = [pc EXCEPT ![p] = "mark_notified"]
                               /\ UNCHANGED loc
                          ELSE /\ loc' = [loc EXCEPT ![p].to_notify = Tail(@)]
                               /\ UNCHANGED pc
            /\ UNCHANGED <<pend, rowLocks>>
    /\ UNCHANGED <<creditVars, submitVars, cmd, result, hist, faults, subscriptions,
                   invoices, invoiceSeq, detectVars, wpc, job, runs, crashes>>

\* "anomaly.notified_at = datetime.utcnow()"
mark_notified(anomaly) == [anomaly EXCEPT !.notified_at = now]

\* anomaly_repo.mark_notified(anomaly.id): the row is read and updated, flush
MarkNotified(p) ==
    /\ pc[p] = "mark_notified"
    /\ pend' = [pend EXCEPT ![p].anomaly =
                  {mark_notified(a) : a \in get_by_id(p, Head(loc[p].to_notify).id)}]
    /\ pc' = [pc EXCEPT ![p] = "notify_commit"]
    /\ UNCHANGED <<creditVars, submitVars, cmd, loc, rowLocks, result, hist, faults,
                   jobVars>>

\* uow.commit() of the notification: the updated row replaces the stored one
NotifyCommit(p) ==
    /\ pc[p] = "notify_commit"
    /\ anomalies' = {a \in anomalies : \A u \in pend[p].anomaly : u.id # a.id}
                    \cup pend[p].anomaly
    /\ pend' = [pend EXCEPT ![p] = NoPend]
    /\ rowLocks' = [rowLocks EXCEPT ![p] = {}]
    /\ loc' = [loc EXCEPT ![p].to_notify = Tail(@)]
    /\ pc' = [pc EXCEPT ![p] = "send_alert"]
    /\ UNCHANGED <<creditVars, submitVars, cmd, result, hist, faults, subscriptions,
                   invoices, invoiceSeq, anomalySeq, wpc, job, runs, crashes, loop>>

\* A call of the notification part of run_once raises: get_by_id,
\* send_anomaly_alert, mark_notified or the commit.  That part is in no try
\* block: the exception leaves run_once, the session is closed, and the
\* loop's "except Exception" catches it.
DetectorRaises(p) ==
    /\ \/ pc[p] = "send_alert" /\ loc[p].to_notify # <<>>
       \/ pc[p] \in {"mark_notified", "notify_commit"}
    /\ faults < MaxFaults
    /\ faults' = faults + 1
    /\ LeaveSession(p)
    /\ \E raised_by \in {"get_by_id", "send_anomaly_alert"} :
          loop' = [loop EXCEPT ![p] =
                     Raised([@ EXCEPT !.alerts =
                                IF pc[p] = "send_alert" /\ raised_by = "send_anomaly_alert"
                                THEN @ \cup {[id |-> Head(loc[p].to_notify).id,
                                              outcome |-> "raised"]}
                                ELSE @],
                            HalfHoursPerHour)]
    /\ UNCHANGED <<creditVars, submitVars, cmd, result, hist, subscriptions, invoices,
                   invoiceSeq, detectVars, wpc, job, runs, crashes>>

\* One turn of the reconciler's "while True" up to its first await:
\* run_once() opens its session and calls ReconcileLedger.
IterateReconciler(p) ==
    /\ loop[p].worker = "reconciler"
    /\ loop[p].lpc = "iterate"
    /\ loop' = [loop EXCEPT ![p].lpc = "run_once"]
    /\ \E ledger_repo \in LedgerRepos :
          cmd' = [cmd EXCEPT ![p] = [op |-> "reconcile", ledger_repo |-> ledger_repo]]
    /\ pc' = [pc EXCEPT ![p] = "get_all"]
    /\ loc' = [loc EXCEPT ![p] = [ledgers |-> <<>>, total_ledgers |-> 0,
                                  discrepancies |-> <<>>]]
    /\ result' = [result EXCEPT ![p] = NoResult]
    /\ hist' = [hist EXCEPT ![p] = NoHist]
    /\ UNCHANGED <<creditVars, submitVars, pend, rowLocks, faults, subscriptions,
                   invoices, invoiceSeq, detectVars, wpc, job, runs, crashes>>

\* ReconcileLedger has returned.  On an error run_once raises RuntimeError,
\* which the loop catches; otherwise the report is logged.  Either way the
\* session is closed and the loop sleeps.
AfterReconciliation(p) ==
    /\ loop[p].worker = "reconciler"
    /\ loop[p].lpc = "run_once"
    /\ pc[p] = "returned"
    /\ LeaveSession(p)
    /\ loop' = [loop EXCEPT ![p] =
                  IF result[p].kind = "err"
                  THEN LoopExcept(@, HalfHoursPerDay)
                  ELSE LoopSleep(@, "complete", HalfHoursPerDay)]
    /\ UNCHANGED <<creditVars, submitVars, cmd, result, hist, faults, subscriptions,
                   invoices, invoiceSeq, detectVars, wpc, job, runs, crashes>>

ForeverNext ==
    \/ ForeverTick
    \/ \E w \in {1} :
          \/ IterateAllocator(w)
          \/ AllocatorRaises(w)
          \/ NextSubscription(w)
          \/ CheckIdempotency(w)
          \/ GetLedger(w)
          \/ CreateLedger(w)
          \/ RefetchLedger(w)
          \/ CreateTransaction(w)
          \/ UpdateBalance(w)
          \/ Commit(w)
          \/ AfterAllocate(w)
          \/ InvoiceExists(w)
          \/ GenerateInvoiceNumber(w)
          \/ InvoiceCreate(w)
          \/ InvoiceCommit(w)
          \/ AfterInvoice(w)
          \/ AllocatorReturns(w)
    \/ \E p \in Procs \ {1} :
          \/ IterateDetector(p)
          \/ GetConsumption(p)
          \/ AnomalyExists(p)
          \/ AnomalyCreate(p)
          \/ DetectCommit(p)
          \/ AfterDetection(p)
          \/ SendAlert(p)
          \/ MarkNotified(p)
          \/ NotifyCommit(p)
          \/ DetectorRaises(p)
          \/ IterateReconciler(p)
          \/ GetAll(p)
          \/ TransactionSum(p)
          \/ ReconcileFault(p)
          \/ AfterReconciliation(p)
    \/ \E p \in Procs :
          \/ Fault(p)
          \/ Wake(p)
          \/ CancelLoop(p)

ForeverSpec == ForeverInit /\ [][ForeverNext]_vars

\* ------------------------------------------------ anomaly repository
\* AnomalyStatus
AnomalyStatuses == {"detected", "acknowledged", "resolved", "false_positive"}

\* update_status: "anomaly.status = status", and for RESOLVED and
\* FALSE_POSITIVE resolved_at = utcnow() and resolved_by = resolved_by
update_status(anomaly, status, resolved_by) ==
    IF status \in {"resolved", "false_positive"}
    THEN [anomaly EXCEPT !.status = status, !.resolved_at = now,
                         !.resolved_by = resolved_by]
    ELSE [anomaly EXCEPT !.status = status]

\* A caller with a session of its own calls anomaly_repo.update_status for a
\* stored anomaly and commits.  The UPDATE waits while another session holds
\* an uncommitted update of the row.
UpdateStatus(p) ==
    /\ pc[p] = "idle"
    /\ started < MaxCmds
    /\ started' = started + 1
    /\ \E a \in anomalies, status \in AnomalyStatuses, resolved_by \in {"none", "operator"} :
          /\ \A q \in Procs : \A u \in pend[q].anomaly : u.id # a.id
          /\ anomalies' = (anomalies \ {a}) \cup {update_status(a, status, resolved_by)}
    /\ UNCHANGED <<creditVars, tenantsUsed, keysUsed, pc, cmd, loc, pend, rowLocks, result,
                   hist, faults, subscriptions, invoices, invoiceSeq, anomalySeq, wpc, job,
                   runs, crashes, loop>>

\* ------------------------------------------------ detector's run_once
\* AbnormalUsageDetectorWorker.run_once called directly, at any time and
\* from several tasks: the detection, then the alerts for what it created
NotifyNext ==
    \/ DetectTick
    \/ \E p \in Procs :
          \/ StartDetection(p)
          \/ GetConsumption(p)
          \/ AnomalyExists(p)
          \/ AnomalyCreate(p)
          \/ DetectCommit(p)
          \/ Fault(p)
          \/ AfterDetection(p)
          \/ SendAlert(p)
          \/ MarkNotified(p)
          \/ NotifyCommit(p)
          \/ DetectorRaises(p)

NotifySpec == DetectInit /\ [][NotifyNext]_vars

\* the detector's run_once while callers update the status of anomalies
AnomalyRepoNext ==
    \/ DetectTick
    \/ \E p \in {1} :
          \/ StartDetection(p)
          \/ GetConsumption(p)
          \/ AnomalyExists(p)
          \/ AnomalyCreate(p)
          \/ DetectCommit(p)
          \/ AfterDetection(p)
          \/ SendAlert(p)
          \/ MarkNotified(p)
          \/ NotifyCommit(p)
    \/ \E p \in {2} : UpdateStatus(p)

AnomalyRepoSpec == DetectInit /\ [][AnomalyRepoNext]_vars

\* ------------------------------------------------------------- properties
RowsOfLedger(ledger_id) == {tx \in transactions : tx.ledger_id = ledger_id}
RowsOfKey(key) == {tx \in transactions : tx.idempotency_key = key}

\* C1: in every reachable state every ledger's stored balance is >= 0, and no
\* Consume computes, writes or commits a balance_after below zero.
C1_BalanceNonNegative ==
    /\ \A l \in ledgers : l.balance >= 0
    /\ \A tx \in transactions : tx.balance_after >= 0
    /\ \A p \in Procs :
          pc[p] \in {"create_transaction", "update_balance", "commit"}
             => loc[p].balance_after >= 0

\* a committed Consume has taken a ledger down to exactly 0
C1_Witness ==
    \E tx \in transactions :
        /\ tx.transaction_type = "consume"
        /\ tx.balance_after = 0
        /\ \E l \in ledgers : l.id = tx.ledger_id /\ l.balance = 0

\* C2: every ledger's stored balance equals the signed sum of its transaction
\* rows (CONSUME as -amount, REFUND and ALLOCATE as +amount).
C2_BalanceEqualsSignedSum ==
    \A l \in ledgers : l.balance = SumSigned(RowsOfLedger(l.id))

\* a ledger that carries committed rows of all three types
C2_Witness ==
    \E l \in ledgers :
        \A ty \in Ops : \E tx \in RowsOfLedger(l.id) : tx.transaction_type = ty

\* C3: for every idempotency key at most one transaction row exists.
C3_OneRowPerKey ==
    \A t1 \in transactions : \A t2 \in transactions :
        t1.idempotency_key = t2.idempotency_key => t1 = t2

\* a second insert of a key was attempted after both submissions had passed the
\* key lookup, and the key still has exactly one row
C3_Witness ==
    \E p \in Procs :
        /\ hist[p].raceLost
        /\ Cardinality(RowsOfKey(cmd[p].idempotency_key)) = 1

SameCommand(p, tx) ==
    /\ tx.idempotency_key = cmd[p].idempotency_key
    /\ tx.transaction_type = TransactionType(cmd[p].op)
    /\ tx.tenant_id = cmd[p].tenant_id
    /\ tx.amount = cmd[p].amount

\* C4: a submission that passed the key lookup and then lost the duplicate-key
\* race at the insert to another submission of the same command returns
\* success with the winner's response.
C4_RaceLoserReturnsWinnerResponse ==
    \A p \in Procs :
        \A tx \in RowsOfKey(cmd[p].idempotency_key) :
            hist[p].raceLost /\ SameCommand(p, tx) =>
                /\ result[p].kind = "ok"
                /\ result[p] = ReturnOk(origResp[cmd[p].idempotency_key])

\* C5: a submission that finds its key already written returns exactly the
\* response of the original write (same transaction_id, balance_before and
\* balance_after as stored then), and the ledger balance is updated exactly
\* once under a key that has a row and never under one that has none.
C5_ReplayReturnsOriginalResponse ==
    /\ \A p \in Procs :
          hist[p].replay =>
              \A tx \in RowsOfKey(cmd[p].idempotency_key) :
                  SameCommand(p, tx) =>
                      /\ result[p] = ReturnOk(origResp[cmd[p].idempotency_key])
                      /\ result[p].value.transaction_id = tx.id
                      /\ result[p].value.balance_before = tx.balance_before
                      /\ result[p].value.balance_after = tx.balance_after
    /\ \A k \in Keys : applied[k] = Cardinality(RowsOfKey(k))
    /\ \A k \in Keys : applied[k] <= 1

\* a replay of the same command returned after another command had changed
\* the ledger: the replayed balance_after is not the current balance
C5_Witness ==
    \E p \in Procs :
        /\ hist[p].replay
        /\ result[p].kind = "ok"
        /\ \E tx \in RowsOfKey(cmd[p].idempotency_key) : SameCommand(p, tx)
        /\ result[p].value.balance_after # CommittedBalance(cmd[p].tenant_id)

\* Two Consume commands p and q on one ledger, with different keys that no
\* row had when they were submitted, both submitted before either committed,
\* both returned, neither hit by a lower-layer exception nor by a third
\* submission of its key, and no third command has written to the ledger since.
ConcurrentConsumes(p, q) ==
    /\ p # q
    /\ cmd[p].op = "consume" /\ cmd[q].op = "consume"
    /\ cmd[p].tenant_id = cmd[q].tenant_id
    /\ cmd[p].idempotency_key # cmd[q].idempotency_key
    /\ hist[p].keyFresh /\ hist[q].keyFresh
    /\ hist[p].startBal >= 0
    /\ hist[p].startVer = hist[q].startVer
    /\ result[p].kind # "none" /\ result[q].kind # "none"
    /\ ~hist[p].faulted /\ ~hist[q].faulted
    /\ ~hist[p].replay /\ ~hist[q].replay
    /\ ~hist[p].raceLost /\ ~hist[q].raceLost
    /\ Cardinality({tx \in TxOfTenant(cmd[p].tenant_id) :
                       tx.idempotency_key \notin {cmd[p].idempotency_key,
                                                  cmd[q].idempotency_key}})
          = hist[p].startVer

\* C6: two concurrent Consumes of a and b with a + b <= balance both succeed,
\* the final balance is balance - a - b, and one transaction's balance_before
\* is the other's balance_after.
C6_ConcurrentConsumesBothSucceed ==
    \A p \in Procs : \A q \in Procs :
        ConcurrentConsumes(p, q) /\ cmd[p].amount + cmd[q].amount <= hist[p].startBal =>
            /\ result[p].kind = "ok"
            /\ result[q].kind = "ok"
            /\ CommittedBalance(cmd[p].tenant_id)
                  = hist[p].startBal - cmd[p].amount - cmd[q].amount
            /\ \/ result[p].value.balance_before = result[q].value.balance_after
               \/ result[q].value.balance_before = result[p].value.balance_after

\* both Consumes were in flight together: the second locked the ledger only
\* after the first had committed, and read the first one's balance_after
C6_Witness ==
    \E p \in Procs : \E q \in Procs :
        /\ ConcurrentConsumes(p, q)
        /\ cmd[p].amount + cmd[q].amount <= hist[p].startBal
        /\ result[p].kind = "ok" /\ result[q].kind = "ok"
        /\ result[q].value.balance_before = result[p].value.balance_after

\* C7: two concurrent Consumes of a and b with a <= balance, b <= balance and
\* a + b > balance: exactly one succeeds, the other returns INSUFFICIENT_CREDIT.
C7_ConcurrentConsumesOneSucceeds ==
    \A p \in Procs : \A q \in Procs :
        /\ ConcurrentConsumes(p, q)
        /\ cmd[p].amount <= hist[p].startBal
        /\ cmd[q].amount <= hist[p].startBal
        /\ cmd[p].amount + cmd[q].amount > hist[p].startBal
        => \/ result[p].kind = "ok" /\ result[q] = ReturnErr("INSUFFICIENT_CREDIT")
           \/ result[q].kind = "ok" /\ result[p] = ReturnErr("INSUFFICIENT_CREDIT")

C7_Witness ==
    \E p \in Procs : \E q \in Procs :
        /\ ConcurrentConsumes(p, q)
        /\ cmd[p].amount <= hist[p].startBal
        /\ cmd[q].amount <= hist[p].startBal
        /\ cmd[p].amount + cmd[q].amount > hist[p].startBal
        /\ result[p].kind = "ok"
        /\ result[q] = ReturnErr("INSUFFICIENT_CREDIT")

\* ORDER BY created_at, id
OrderedBefore(t1, t2) ==
    \/ t1.created_at < t2.created_at
    \/ t1.created_at = t2.created_at /\ t1.id < t2.id

\* t2 is the row right after t1 among the rows of their ledger
NextInLedger(t1, t2) ==
    /\ t1.ledger_id = t2.ledger_id
    /\ OrderedBefore(t1, t2)
    /\ ~\E t3 \in RowsOfLedger(t1.ledger_id) :
           OrderedBefore(t1, t3) /\ OrderedBefore(t3, t2)

\* C8: within a ledger, in the order (created_at, id), each transaction's
\* balance_after equals the next transaction's balance_before.
C8_SnapshotChain ==
    \A t1 \in transactions : \A t2 \in transactions :
        NextInLedger(t1, t2) => t1.balance_after = t2.balance_before

\* a ledger with three rows, two of them with the same created_at
C8_Witness ==
    \E l \in ledgers :
        /\ Cardinality(RowsOfLedger(l.id)) = 3
        /\ \E t1 \in RowsOfLedger(l.id) : \E t2 \in RowsOfLedger(l.id) :
              t1 # t2 /\ t1.created_at = t2.created_at
        /\ \E t1 \in RowsOfLedger(l.id) : \E t2 \in RowsOfLedger(l.id) :
              t1.created_at # t2.created_at

\* C9: a Consume that has read the locked ledger returns INSUFFICIENT_CREDIT
\* if and only if the locked balance is strictly less than the amount; a
\* Consume of exactly the balance (not hit by a lower-layer exception or a
\* duplicate key) succeeds with balance_after = 0.
C9_InsufficientIffBalanceBelowAmount ==
    \A p \in Procs :
        cmd[p].op = "consume" =>
            /\ result[p] = ReturnErr("INSUFFICIENT_CREDIT")
                  <=> (hist[p].locked /\ hist[p].lockedBal < cmd[p].amount)
            /\ ( /\ hist[p].locked
                 /\ hist[p].lockedBal = cmd[p].amount
                 /\ pc[p] \in {"returned", "idle"}
                 /\ ~hist[p].faulted /\ ~hist[p].raceLost )
               => /\ result[p].kind = "ok"
                  /\ result[p].value.balance_after = 0
                  /\ \E tx \in RowsOfKey(cmd[p].idempotency_key) : tx.balance_after = 0

\* a Consume of exactly the balance has returned success and the ledger is at 0
C9_Witness ==
    \E p \in Procs :
        /\ cmd[p].op = "consume"
        /\ hist[p].locked
        /\ hist[p].lockedBal = cmd[p].amount
        /\ result[p].kind = "ok"
        /\ CommittedBalance(cmd[p].tenant_id) = 0

\* C10: a command that returns an error has nothing flushed left in its
\* session, and neither the step that returns the error nor any later step of
\* that request changes a ledger row or the transaction table.
C10_ErrorWritesNothing ==
    [][\A p \in Procs :
          result'[p].kind = "err" =>
              /\ pend'[p] = NoPend
              /\ (result[p] # result'[p] \/ pc[p] # pc'[p])
                    => (ledgers' = ledgers /\ transactions' = transactions)]_vars

\* a command returned *_FAILED after it had inserted its transaction row
C10_Witness ==
    \E p \in Procs :
        /\ result[p].kind = "err"
        /\ result[p].code = FailedCode(cmd[p].op)
        /\ hist[p].inserted

\* C11: a handler that has returned an error has rolled its database
\* transaction back: its session holds no ledger row lock and no flushed
\* write, on the LEDGER_NOT_FOUND and INSUFFICIENT_CREDIT returns too.
C11_ErrorPathsRolledBack ==
    \A p \in Procs :
        pc[p] = "returned" /\ result[p].kind = "err" =>
            rowLocks[p] = {} /\ pend[p] = NoPend

\* C13: a command cancelled while it holds the ledger row lock and has not
\* committed makes no write visible, neither when it is cancelled nor when its
\* session is closed; closing the session discards what it had flushed and
\* releases the row lock, so no lock is left behind for later commands.
C13_CancelRollsBackAndUnlocks ==
    [][\A p \in Procs :
          /\ (hist'[p].cancelled /\ (pc'[p] # pc[p] \/ hist'[p] # hist[p]))
                => (ledgers' = ledgers /\ transactions' = transactions)
          /\ (pc[p] = "cancelled" /\ pc'[p] # "cancelled")
                => (pc'[p] = "idle" /\ pend'[p] = NoPend /\ rowLocks'[p] = {})
          /\ pc'[p] = "idle" => (pend'[p] = NoPend /\ rowLocks'[p] = {})]_vars

\* a command was cancelled after it had locked the ledger and inserted its
\* transaction row; its session is closed, nothing of it is committed, and
\* another command now holds the lock on that ledger
C13_Witness ==
    \E p \in Procs : \E q \in Procs \ {p} :
        /\ hist[p].cancelled /\ hist[p].locked /\ hist[p].inserted
        /\ pc[p] = "idle"
        /\ RowsOfKey(cmd[p].idempotency_key) = {}
        /\ cmd[q].tenant_id = cmd[p].tenant_id
        /\ rowLocks[q] # {}

\* C14: an Allocate that finds no ledger creates it with balance 0 and, when
\* it commits, returns balance_before = 0 and balance_after = amount; only an
\* Allocate ever creates a ledger; a Consume or Refund that finds no ledger
\* returns LEDGER_NOT_FOUND and creates nothing.
C14_OnlyAllocateCreatesLedger ==
    [][\A p \in Procs :
          /\ ( /\ pc[p] = "get_ledger" /\ pc'[p] # "get_ledger"
               /\ faults' = faults
               /\ ~\E l \in ledgers : l.tenant_id = cmd[p].tenant_id )
             => IF cmd[p].op = "allocate"
                THEN pc'[p] = "create_ledger"
                ELSE /\ result'[p] = ReturnErr("LEDGER_NOT_FOUND")
                     /\ ledgers' = ledgers /\ pend'[p] = NoPend
                     /\ ledgerSeq' = ledgerSeq
          /\ (pend'[p].ledger # {} /\ pend[p].ledger = {})
             => /\ cmd[p].op = "allocate"
                /\ \A l \in pend'[p].ledger :
                      l.balance = 0 /\ l.tenant_id = cmd[p].tenant_id
          /\ (pend[p].ledger # {} /\ pc[p] = "commit" /\ pc'[p] = "returned"
              /\ faults' = faults)
             => /\ result'[p].kind = "ok"
                /\ result'[p].value.balance_before = 0
                /\ result'[p].value.balance_after = cmd[p].amount
                /\ \E l \in ledgers' : /\ l.tenant_id = cmd[p].tenant_id
                                       /\ l.balance = cmd[p].amount
          /\ (\E l \in ledgers' : \A k \in ledgers : k.id # l.id)
             => \E q \in Procs : cmd[q].op = "allocate" /\ pc[q] = "commit"]_vars

\* an Allocate has created a ledger and returned 0 -> amount, and a Consume
\* or Refund for another tenant has returned LEDGER_NOT_FOUND with still no
\* ledger for that tenant
C14_Witness ==
    \E p \in Procs : \E q \in Procs :
        /\ cmd[p].op = "allocate" /\ result[p].kind = "ok" /\ ~hist[p].replay
        /\ result[p].value.balance_before = 0
        /\ hist[p].startBal = -1
        /\ \E l \in ledgers : l.tenant_id = cmd[p].tenant_id
        /\ result[q] = ReturnErr("LEDGER_NOT_FOUND")
        /\ ~\E l \in ledgers : l.tenant_id = cmd[q].tenant_id

AllocationKey(tenant, month) ==
    _generate_idempotency_key(tenant, _get_billing_period(month).period_start)

\* C15: for every tenant with an ACTIVE subscription and every billing month
\* there is at most one allocation row, the ledger was credited at most once
\* under its key, every row carries the monthly_credits of an ACTIVE
\* subscription of its tenant, and each balance is the sum of these rows,
\* however often run_once ran and wherever a worker was killed.
C15_AllocationAtMostOncePerMonth ==
    /\ \A t \in Tenants : \A m \in Months :
          /\ Cardinality(RowsOfKey(AllocationKey(t, m))) <= 1
          /\ applied[AllocationKey(t, m)] <= 1
    /\ \A tx \in transactions :
          /\ tx.transaction_type = "allocate"
          /\ \E m \in Months : tx.idempotency_key = AllocationKey(tx.tenant_id, m)
          /\ \E s \in subscriptions :
                /\ s.status = "active" /\ s.tenant_id = tx.tenant_id
                /\ s.monthly_credits = tx.amount
    /\ \A l \in ledgers : l.balance = SumSigned(RowsOfLedger(l.id))

\* a worker was killed part-way, run_once ran again for the same month to
\* its end, found the allocations of the killed run, and every tenant holds
\* one month's credits
C15_Witness ==
    \E w \in Procs :
        /\ crashes > 0
        /\ wpc[w] = "done"
        /\ hist[w].replay
        /\ job[w].successful_allocations = NumTenants
        /\ \A t \in Tenants :
              /\ RowsOfKey(AllocationKey(t, job[w].period.period_start.month)) # {}
              /\ \E l \in ledgers : l.tenant_id = t /\ l.balance = t

\* the ACTIVE subscriptions of the run of w that have no committed allocation
\* for its period
Unallocated(w) ==
    {i \in 1..job[w].total_subscriptions :
        RowsOfKey(_generate_idempotency_key(get_active_subscriptions[i].tenant_id,
                                            job[w].period.period_start)) = {}}

\* C16: a failed allocation is counted in failed_allocations by a step that
\* changes no committed row and goes on to the next subscription; when
\* run_once returns its summary every subscription is counted as successful
\* or as failed, and every subscription whose allocation is not committed is
\* among the failed ones.
C16_FailureIsolated ==
    [][\A w \in Procs :
          /\ job'[w].failed_allocations > job[w].failed_allocations
                => /\ job'[w].failed_allocations = job[w].failed_allocations + 1
                   /\ wpc'[w] = "next"
                   /\ ledgers' = ledgers /\ transactions' = transactions
                   /\ invoices' = invoices
          /\ wpc'[w] = "done"
                => /\ job'[w].successful_allocations + job'[w].failed_allocations
                         = job'[w].total_subscriptions
                   /\ Cardinality(Unallocated(w)') <= job'[w].failed_allocations]_vars

\* run_once has returned its summary: the first subscription's allocation
\* failed on a lower-layer exception and is not committed, a later one's is
\* committed and invoiced
C16_Witness ==
    \E w \in Procs :
        /\ wpc[w] = "done"
        /\ faults > 0
        /\ job[w].failed_allocations >= 1
        /\ job[w].successful_allocations >= 1
        /\ job[w].invoices_created >= 1
        /\ RowsOfKey(_generate_idempotency_key(1, job[w].period.period_start)) = {}
        /\ RowsOfKey(_generate_idempotency_key(2, job[w].period.period_start)) # {}

\* C17: for every tenant and billing period at most one invoice row exists.
C17_OneInvoicePerTenantPeriod ==
    \A i \in invoices : \A j \in invoices :
        ( /\ i.tenant_id = j.tenant_id
          /\ i.billing_period_start = j.billing_period_start
          /\ i.billing_period_end = j.billing_period_end )
        => i = j

\* C18: for every tenant and detection window at most one anomaly row exists.
C18_OneAnomalyPerTenantWindow ==
    \A a \in anomalies : \A b \in anomalies :
        ( /\ a.tenant_id = b.tenant_id
          /\ a.period_start = b.period_start
          /\ a.period_end = b.period_end )
        => a = b

\* C19: a committed transaction row is never updated or deleted: every row
\* of credit_transactions is still there, field for field, after every step
\* of every handler and worker.
C19_TransactionsImmutable ==
    [][\A tx \in transactions : tx \in transactions']_vars

\* two commands have committed their rows, one of them a Consume, and a
\* third, on a ledger that has rows, was rolled back on an exception after its
\* own row had been inserted
C19_Witness ==
    /\ Cardinality(transactions) = MaxCmds - 1
    /\ \E tx \in transactions : tx.transaction_type = "consume"
    /\ \E p \in Procs :
          /\ pc[p] = "returned"
          /\ hist[p].faulted /\ hist[p].inserted
          /\ \E tx \in transactions : tx.ledger_id = loc[p].ledger_id

\* C20: in the turn of the reconciliation loop that compares a ledger, a
\* discrepancy is appended if and only if the ledger's balance differs from
\* the signed sum of its transactions (CONSUME as -amount, REFUND and
\* ALLOCATE as +amount), and its value is the balance minus that sum.
C20_DiscrepancyIffSignedSumDiffers ==
    [][\A p \in Procs :
          (pc[p] = "transaction_sum" /\ loc[p].ledgers # <<>> /\ loc'[p].ledgers # loc[p].ledgers)
          => LET ledger == Head(loc[p].ledgers)
                 calculated == SumSigned(RowsOfLedger(ledger.id))
             IN IF ledger.balance # calculated
                THEN /\ Len(loc'[p].discrepancies) = Len(loc[p].discrepancies) + 1
                     /\ loc'[p].discrepancies[Len(loc'[p].discrepancies)].discrepancy
                           = ledger.balance - calculated
                ELSE loc'[p].discrepancies = loc[p].discrepancies]_vars

\* C21: no step of a reconciliation run changes a ledger row, a transaction
\* row or any other table, and the run's session never holds a flushed write
\* or a row lock (there is nothing it could commit), whether the run returns
\* discrepancies, none, or RECONCILIATION_FAILED.
C21_ReconciliationNeverMutates ==
    [][\A p \in Procs :
          ( /\ cmd'[p].op = "reconcile"
            /\ <<pc[p], cmd[p], loc[p], result[p]>>' # <<pc[p], cmd[p], loc[p], result[p]>> )
          => /\ ledgers' = ledgers /\ transactions' = transactions
             /\ invoices' = invoices /\ anomalies' = anomalies
             /\ origResp' = origResp /\ applied' = applied
             /\ pend'[p] = NoPend /\ rowLocks'[p] = {}]_vars

\* the second reconciliation run of the behaviour has returned a discrepancy
\* for a ledger, and the ledger and its rows are as the commands left them
C21_Witness ==
    \E p \in Procs :
        /\ cmd[p].op = "reconcile" /\ pc[p] = "returned"
        /\ runs = MaxRuns
        /\ result[p].kind = "ok"
        /\ result[p].value.discrepancies_found >= 1
        /\ \A l \in ledgers : l.balance = SumSigned(RowsOfLedger(l.id))

\* C25: every ledger of the store was created by Allocate and changed only by
\* committed Consume, Refund and Allocate commands; a reconciliation run
\* that returns a result reports no discrepancy.
C25_NoDiscrepancyForCommandLedgers ==
    \A p \in Procs :
        (cmd[p].op = "reconcile" /\ pc[p] = "returned" /\ result[p].kind = "ok")
        => result[p].value.discrepancies_found = 0

\* C28: at most one ledger row per tenant_id exists, among the committed rows
\* and the rows sessions have inserted and not yet committed.
C28_OneLedgerPerTenant ==
    \A l1 \in ledgers \cup UNION {pend[q].ledger : q \in Procs} :
        \A l2 \in ledgers \cup UNION {pend[q].ledger : q \in Procs} :
            l1.tenant_id = l2.tenant_id => l1 = l2

\* two Allocate commands with different idempotency keys for a tenant without
\* a ledger ran concurrently and both found no ledger: one has created the
\* ledger and succeeded, the insert of the other was rejected
C28_Witness ==
    \E p \in Procs : \E q \in Procs \ {p} :
        /\ cmd[p].op = "allocate" /\ cmd[q].op = "allocate"
        /\ cmd[p].tenant_id = cmd[q].tenant_id
        /\ cmd[p].idempotency_key # cmd[q].idempotency_key
        /\ hist[p].startBal = -1 /\ hist[q].startBal = -1
        /\ pc[p] = "returned" /\ result[p].kind = "ok"
        /\ pc[q] = "returned" /\ result[q] = ReturnErr("ALLOCATE_CREDIT_FAILED")
        /\ ~hist[q].faulted /\ ~hist[q].raceLost
        /\ Cardinality({l \in ledgers : l.tenant_id = cmd[p].tenant_id}) = 1

\* C29: the step in which a command finds a committed row under its
\* idempotency key returns success with the stored row's transaction id,
\* tenant, amount and balance snapshots, whatever tenant_id, amount and
\* operation the command itself carries, and changes no ledger and no row.
C29_ReplayIgnoresCommandFields ==
    [][\A p \in Procs :
          (hist'[p].replay /\ ~hist[p].replay)
          => /\ \A tx \in RowsOfKey(cmd[p].idempotency_key) :
                   /\ result'[p].kind = "ok"
                   /\ result'[p].value.transaction_id = tx.id
                   /\ result'[p].value.tenant_id = tx.tenant_id
                   /\ result'[p].value.amount = tx.amount
                   /\ result'[p].value.balance_before = tx.balance_before
                   /\ result'[p].value.balance_after = tx.balance_after
             /\ RowsOfKey(cmd[p].idempotency_key) # {}
             /\ pc'[p] = "returned"
             /\ ledgers' = ledgers /\ transactions' = transactions
             /\ pend'[p] = NoPend]_vars

\* a command was answered from the row of another tenant's command of
\* another type and amount that had used the same key, after the ledger of
\* that row had changed again
C29_Witness ==
    \E p \in Procs :
        /\ hist[p].replay /\ pc[p] = "returned"
        /\ \E tx \in RowsOfKey(cmd[p].idempotency_key) :
              /\ tx.tenant_id # cmd[p].tenant_id
              /\ tx.amount # cmd[p].amount
              /\ tx.transaction_type # TransactionType(cmd[p].op)
              /\ result[p].value.tenant_id = tx.tenant_id
              /\ CommittedBalance(tx.tenant_id) # tx.balance_after

\* C30: when CreateInvoice has returned INVOICE_ALREADY_EXISTS it has written
\* nothing, and the allocator's next step goes on to the next subscription
\* with successful_allocations, failed_allocations and invoices_created as
\* they were and with no invoice row added.
C30_ExistingInvoiceIsNoChange ==
    [][\A w \in Procs :
          ( /\ wpc[w] = "create_invoice" /\ pc[w] = "returned"
            /\ result[w] = ReturnErr("INVOICE_ALREADY_EXISTS")
            /\ wpc'[w] # wpc[w] /\ crashes' = crashes )
          => /\ pend[w].invoice = {}
             /\ job'[w] = [job[w] EXCEPT !.todo = Tail(@)]
             /\ wpc'[w] = "next"
             /\ invoices' = invoices
             /\ \E i \in invoices :
                   /\ i.tenant_id = cmd[w].tenant_id
                   /\ i.billing_period_start = date(cmd[w].billing_period_start)
                   /\ i.billing_period_end = date(cmd[w].billing_period_end)]_vars

\* a second run for a month has returned its summary: every allocation was
\* an idempotent success, every invoice existed already, none was created
C30_Witness ==
    \E w \in Procs :
        /\ wpc[w] = "done"
        /\ faults = 0 /\ crashes = 0 /\ runs = MaxRuns
        /\ job[w].successful_allocations = NumTenants
        /\ job[w].invoices_created = 0
        /\ Cardinality(invoices) = NumTenants
        /\ \A q \in Procs \ {w} : wpc[q] = "stopped"

\* C26: an invoice insert that collides on invoice_number with a committed
\* invoice fails without writing an invoice row, and the allocator's next
\* step after that CREATE_INVOICE_FAILED calls CreateInvoice for the same
\* subscription again.
C26_CollisionFailsClosedAndIsRetried ==
    [][\A w \in Procs :
          /\ (hist'[w].raceLost /\ ~hist[w].raceLost /\ cmd[w].op = "create_invoice")
                => /\ invoices' = invoices
                   /\ pend'[w].invoice = {}
                   /\ result'[w] = ReturnErr("CREATE_INVOICE_FAILED")
          /\ ( /\ wpc[w] = "create_invoice" /\ pc[w] = "returned"
               /\ hist[w].raceLost
               /\ wpc'[w] # wpc[w] \/ pc'[w] # pc[w]
               /\ crashes' = crashes )
                => /\ wpc'[w] = "create_invoice"
                   /\ pc'[w] = "invoice_exists"
                   /\ cmd'[w] = cmd[w]
                   /\ job'[w].todo = job[w].todo]_vars

\* C27: every step that changes the committed rows adds exactly one
\* transaction row and, in the same step, sets the balance of that row's
\* ledger from the row's balance_before to its balance_after (creating the
\* ledger at the same time when Allocate had none); no step changes a ledger
\* without adding its row.  An exception after the row was inserted leaves
\* neither the row nor the balance change.
C27_RowAndBalanceCommitTogether ==
    [][/\ (transactions' # transactions \/ ledgers' # ledgers)
          => \E tx \in transactions' \ transactions :
                /\ transactions' = transactions \cup {tx}
                /\ \E l \in ledgers' : l.id = tx.ledger_id /\ l.balance = tx.balance_after
                /\ \A l \in ledgers' : l.id # tx.ledger_id => l \in ledgers
                /\ \A l \in ledgers : \E m \in ledgers' : m.id = l.id
                /\ \/ \E l \in ledgers : l.id = tx.ledger_id /\ l.balance = tx.balance_before
                   \/ /\ \A l \in ledgers : l.id # tx.ledger_id
                      /\ tx.transaction_type = "allocate"
                      /\ tx.balance_before = 0
                /\ tx.balance_after = BalanceAfter(tx.transaction_type, tx.balance_before,
                                                   tx.amount)
       /\ \A p \in Procs :
             (hist[p].inserted /\ hist'[p].faulted /\ ~hist[p].faulted)
             => /\ transactions' = transactions /\ ledgers' = ledgers
                /\ pend'[p] = NoPend]_vars

\* a Consume or Refund on a ledger with committed rows raised after its row
\* was inserted: the key has no row and the balance is the one it had found
C27_Witness ==
    \E p \in Procs :
        /\ pc[p] = "returned"
        /\ cmd[p].op \in {"consume", "refund"}
        /\ hist[p].inserted /\ hist[p].faulted
        /\ loc[p].balance_after # loc[p].balance_before
        /\ RowsOfKey(cmd[p].idempotency_key) = {}
        /\ RowsOfLedger(loc[p].ledger_id) # {}
        /\ \E l \in ledgers : l.id = loc[p].ledger_id /\ l.balance = loc[p].balance_before

\* C24: the allocator's run_forever starts run_once only on one of the first
\* three days of the month and only for a month this instance has not
\* processed: once a run_once has completed in a month, none starts in it.
C24_RunOnceGated ==
    [][\A w \in Procs :
          (/\ loop[w].worker = "allocator"
           /\ loop[w].lpc = "iterate"
           /\ loop'[w].lpc = "run_once")
          => /\ utc_day(now) <= AllocationDays
             /\ utc_month(now) \notin loop[w].processed
             /\ loop'[w].current_month = utc_month(now)
             /\ job'[w].period = _get_billing_period(PreviousMonth(now))]_vars

\* the allocator has completed run_once in this month, has come round again
\* on one of the first three days of the same month, and has skipped the run
C24_Witness ==
    \E w \in Procs :
        /\ loop[w].worker = "allocator"
        /\ loop[w].lpc = "sleep"
        /\ loop[w].logged = "skipped"
        /\ utc_day(now) <= AllocationDays
        /\ utc_day(now) > 1
        /\ utc_month(now) \in loop[w].processed
        /\ Cardinality(loop[w].processed) = NumMonths

\* the ACTIVE subscriptions
ActiveSubscriptions == {s \in subscriptions : s.status = "active"}

\* the invoices of a tenant for a billing period
InvoicesOf(tenant_id, period) ==
    {i \in invoices : /\ i.tenant_id = tenant_id
                      /\ i.billing_period_start = date(period.period_start)
                      /\ i.billing_period_end = date(period.period_end)}

\* when run_once of the loop in slot w started, the tenant had neither an
\* allocation nor an invoice for the period of the run
FreshAtStart(w, tenant_id) ==
    /\ \A tx \in RowsOfKey(_generate_idempotency_key(tenant_id, job[w].period.period_start)) :
          tx.id \notin loop[w].rows_before.transactions
    /\ \A i \in InvoicesOf(tenant_id, job[w].period) :
          i.id \notin loop[w].rows_before.invoices

\* C22: a monthly run over N ACTIVE subscriptions of distinct tenants, none
\* of which had an allocation or an invoice for the period when the run
\* started, and during which nothing raised, returns total = successful =
\* invoices_created = N; each tenant's balance is then its balance at the
\* start plus its monthly_credits, and the tenant has exactly one invoice
\* for the period, a draft.
C22_MonthlyRunCreditsAndInvoicesEveryone ==
    \A w \in Procs :
        (/\ loop[w].lpc = "run_once"
         /\ wpc[w] = "done"
         /\ faults = loop[w].faults_before
         /\ \A s \in ActiveSubscriptions : \A t \in ActiveSubscriptions :
               s.tenant_id = t.tenant_id => s = t
         /\ \A s \in ActiveSubscriptions : FreshAtStart(w, s.tenant_id))
        => /\ job[w].total_subscriptions = Cardinality(ActiveSubscriptions)
           /\ job[w].successful_allocations = Cardinality(ActiveSubscriptions)
           /\ job[w].invoices_created = Cardinality(ActiveSubscriptions)
           /\ \A s \in ActiveSubscriptions :
                 /\ CommittedBalance(s.tenant_id) =
                       Max(loop[w].balances_before[s.tenant_id], 0) + s.monthly_credits
                 /\ Cardinality(InvoicesOf(s.tenant_id, job[w].period)) = 1
                 /\ \A i \in InvoicesOf(s.tenant_id, job[w].period) : i.status = "draft"

\* the run for the last billing month has gone through every subscription
\* without an exception; the tenants had ledgers from the month before
C22_Witness ==
    \E w \in Procs :
        /\ loop[w].lpc = "run_once"
        /\ wpc[w] = "done"
        /\ faults = loop[w].faults_before
        /\ job[w].period = _get_billing_period(NumMonths)
        /\ job[w].total_subscriptions = NumTenants
        /\ \A t \in Tenants : loop[w].balances_before[t] >= 0
        /\ \A s \in ActiveSubscriptions : FreshAtStart(w, s.tenant_id)

\* the positions of a run_forever loop that is running
Looping == {"iterate", "run_once", "sleep"}

\* C23: in each worker's run_forever an exception that reaches the loop is
\* logged and followed by the sleep, a sleep is followed by the next turn,
\* and a running loop stops only when it is cancelled from outside.
C23_LoopSurvivesExceptions ==
    [][\A p \in Procs :
          /\ (\/ faults' > faults /\ loop'[p] # loop[p]
              \/ /\ loop[p].worker = "reconciler"
                 /\ pc[p] = "returned"
                 /\ result[p].kind = "err"
                 /\ loop'[p] # loop[p]
                 /\ crashes' = crashes)
             => /\ loop'[p].logged = "failed"
                /\ loop'[p].lpc = "sleep"
                /\ loop'[p].wake_at > now
          /\ (loop[p].lpc = "sleep" /\ loop'[p].lpc # "sleep" /\ crashes' = crashes)
             => loop'[p].lpc = "iterate"
          /\ (loop[p].lpc \in Looping /\ loop'[p].lpc \notin Looping)
             => /\ crashes' = crashes + 1
                /\ loop'[p].lpc = "cancelled"]_vars

\* every loop has caught an exception, slept, and started its next turn
C23_Witness ==
    \A p \in Procs :
        /\ loop[p].logged = "failed"
        /\ loop[p].lpc \in {"iterate", "run_once"}
        /\ loop[p].wake_at > HalfHoursPerMonth
        /\ now >= loop[p].wake_at

SecondOfTenant(w) ==
    /\ job[w].todo # <<>>
    /\ \E s \in ActiveSubscriptions :
          /\ s.tenant_id = Head(job[w].todo).tenant_id
          /\ s.id < Head(job[w].todo).id

\* C32: when the run comes to a second ACTIVE subscription of a tenant whose
\* allocation for the period is committed, AllocateCredits answers with the
\* stored allocation; the subscription is counted as successful and the
\* tenant's rows and balance are what they were before it.
C32_SecondSubscriptionAddsNoCredits ==
    [][\A w \in Procs :
          (/\ wpc[w] = "allocate_credits"
           /\ pc[w] = "returned"
           /\ wpc'[w] # wpc[w]
           /\ crashes' = crashes
           /\ SecondOfTenant(w)
           /\ ~hist[w].keyFresh
           /\ ~hist[w].faulted)
          => /\ cmd[w].idempotency_key =
                   _generate_idempotency_key(cmd[w].tenant_id, job[w].period.period_start)
             /\ hist[w].replay
             /\ result[w].kind = "ok"
             /\ \E tx \in RowsOfKey(cmd[w].idempotency_key) :
                   result[w].value = _to_allocate_response_dto(tx)
             /\ Cardinality(RowsOfKey(cmd[w].idempotency_key)) = 1
             /\ Cardinality(TxOfTenant(cmd[w].tenant_id)) = hist[w].startVer
             /\ CommittedBalance(cmd[w].tenant_id) = hist[w].startBal
             /\ ledgers' = ledgers
             /\ transactions' = transactions
             /\ job'[w].successful_allocations = job[w].successful_allocations + 1
             /\ job'[w].failed_allocations = job[w].failed_allocations]_vars

\* in its first run the worker has called AllocateCredits for the second
\* subscription of a tenant, which grants more than the first, and has got
\* the first one's allocation back
C32_Witness ==
    \E w \in Procs :
        /\ wpc[w] = "allocate_credits"
        /\ pc[w] = "returned"
        /\ runs = 1
        /\ SecondOfTenant(w)
        /\ hist[w].replay
        /\ result[w].kind = "ok"
        /\ result[w].value.amount < Head(job[w].todo).monthly_credits
        /\ CommittedBalance(cmd[w].tenant_id) = result[w].value.balance_after

\* C31: when CreateInvoice fails after the allocation was committed, the
\* allocation row stays and the subscription stays counted as successful;
\* when a later turn for the tenant and period finds the allocation
\* committed and nothing raises, it ends with exactly one invoice of the
\* tenant and period, a draft, and with the tenant's rows and balance as
\* they were before it.
C31_MissingInvoiceCreatedWithoutSecondCredit ==
    [][\A w \in Procs :
          (/\ wpc[w] = "create_invoice"
           /\ pc[w] = "returned"
           /\ wpc'[w] # wpc[w]
           /\ crashes' = crashes)
          => LET key == _generate_idempotency_key(cmd[w].tenant_id,
                                                   job[w].period.period_start)
             IN /\ Cardinality(RowsOfKey(key)) = 1
                /\ transactions' = transactions
                /\ ledgers' = ledgers
                /\ job[w].successful_allocations >= 1
                /\ job'[w].successful_allocations = job[w].successful_allocations
                /\ job'[w].failed_allocations = job[w].failed_allocations
                /\ (~hist[w].keyFresh /\ ~hist[w].faulted)
                   => /\ hist[w].replay
                      /\ Cardinality(TxOfTenant(cmd[w].tenant_id)) = hist[w].startVer
                      /\ CommittedBalance(cmd[w].tenant_id) = hist[w].startBal
                      /\ Cardinality(InvoicesOf(cmd[w].tenant_id, job[w].period)) = 1
                      /\ \A i \in InvoicesOf(cmd[w].tenant_id, job[w].period) :
                            i.status = "draft"
                      /\ result[w].kind = "ok"
                         => job'[w].invoices_created = job[w].invoices_created + 1]_vars

\* the second run, for the same month as the first, has created the invoice
\* of a tenant whose allocation the first run had committed and whose
\* invoice the first run had failed to create
C31_Witness ==
    \E w \in Procs :
        /\ wpc[w] = "create_invoice"
        /\ pc[w] = "returned"
        /\ runs = 2
        /\ crashes = 0
        /\ faults >= 1
        /\ ~hist[w].faulted
        /\ ~hist[w].keyFresh
        /\ hist[w].replay
        /\ ~SecondOfTenant(w)
        /\ result[w].kind = "ok"
        /\ CommittedBalance(cmd[w].tenant_id) = Head(job[w].todo).monthly_credits

\* the sum of a tenant's CONSUME amounts in the window of the run in slot p
WindowSum(p, tenant_id) ==
    SumAmount(ConsumeRowsIn(tenant_id, cmd[p].period_start, cmd[p].period_end))

\* the rows of a set of anomalies that are for the tenant and the window of
\* the run in slot p
ForWindow(p, S, tenant_id) ==
    {a \in S : /\ a.tenant_id = tenant_id
               /\ a.period_start = cmd[p].period_start
               /\ a.period_end = cmd[p].period_end}

\* C33: a detection run creates an anomaly for a tenant exactly when the sum
\* of the tenant's CONSUME amounts in [period_start, period_end) is greater
\* than the threshold and its pre-check finds no anomaly of the tenant and
\* window; the row it creates is DETECTED, and the run that returns has
\* created at most one per tenant, none for a tenant at or below the
\* threshold, and none without leaving the tenant with an anomaly of the
\* window.
C33_AnomalyIffAboveThresholdAndNew ==
    [][\A p \in Procs :
          /\ (/\ pc[p] = "anomaly_exists"
              /\ loc[p].consumption_data # <<>>
              /\ pc'[p] \in {"anomaly_exists", "anomaly_create"}
              /\ <<pc[p], loc[p]>> # <<pc'[p], loc'[p]>>)
             => LET tenant_id == Head(loc[p].consumption_data)[1]
                IN /\ Head(loc[p].consumption_data)[2] = WindowSum(p, tenant_id)
                   /\ ForWindow(p, loc[p].detected_anomalies, tenant_id) = {}
                   /\ pc'[p] = "anomaly_create"
                      <=> /\ WindowSum(p, tenant_id) > hourly_threshold
                          /\ ForWindow(p, anomalies \cup pend[p].anomaly, tenant_id) = {}
          /\ (pc[p] = "anomaly_create" /\ pc'[p] = "anomaly_exists")
             => LET tenant_id == Head(loc[p].consumption_data)[1]
                IN \E a \in pend'[p].anomaly :
                      /\ a \notin pend[p].anomaly
                      /\ pend'[p].anomaly = pend[p].anomaly \cup {a}
                      /\ loc'[p].detected_anomalies = loc[p].detected_anomalies \cup {a}
                      /\ ForWindow(p, {a}, tenant_id) = {a}
                      /\ a.status = "detected"
                      /\ a.actual_value = WindowSum(p, tenant_id)
          /\ (cmd'[p].op = "detect" /\ pc'[p] = "returned" /\ result'[p].kind = "ok")
             => \A t \in Tenants :
                   LET created == {a \in result'[p].value.anomalies : a.tenant_id = t}
                       total == SumAmount({tx \in transactions' :
                                   /\ tx.tenant_id = t
                                   /\ tx.transaction_type = "consume"
                                   /\ tx.created_at >= cmd'[p].period_start
                                   /\ tx.created_at < cmd'[p].period_end})
                   IN /\ Cardinality(created) <= 1
                      /\ created \subseteq anomalies'
                      /\ total <= hourly_threshold => created = {}
                      /\ total > hourly_threshold
                         => \E a \in anomalies' :
                               /\ a.tenant_id = t
                               /\ a.period_start = cmd'[p].period_start
                               /\ a.period_end = cmd'[p].period_end]_vars

\* a run has returned one new anomaly, for a tenant above the threshold,
\* while another tenant consumed exactly the threshold in the window and has
\* none
C33_Witness ==
    \E p \in Procs :
        /\ cmd[p].op = "detect"
        /\ pc[p] = "returned"
        /\ result[p].kind = "ok"
        /\ result[p].value.anomalies_detected = 1
        /\ \E t \in Tenants :
              /\ WindowSum(p, t) = hourly_threshold
              /\ ForWindow(p, anomalies, t) = {}

\* the outcomes of the calls of send_anomaly_alert for an anomaly
AlertOutcomes(anomaly_id) ==
    {e.outcome : e \in {x \in UNION {loop[p].alerts : p \in Procs} : x.id = anomaly_id}}

\* C34: a row has notified_at set, flushed or committed, only if
\* send_anomaly_alert returned success for it, and mark_notified is called
\* only after that; an anomaly whose alert returned failure keeps
\* notified_at unset.
C34_NotifiedOnlyAfterSuccessfulAlert ==
    /\ \A a \in anomalies \cup UNION {pend[p].anomaly : p \in Procs} :
          a.notified_at # -1 => "success" \in AlertOutcomes(a.id)
    /\ \A p \in Procs :
          pc[p] \in {"mark_notified", "notify_commit"}
          => "success" \in AlertOutcomes(Head(loc[p].to_notify).id)
    /\ \A a \in anomalies :
          AlertOutcomes(a.id) = {"failure"} => a.notified_at = -1

\* one anomaly is committed as notified after its alert went out, another
\* one of the same run is left unnotified after its alert failed
C34_Witness ==
    /\ \E a \in anomalies : a.notified_at # -1 /\ AlertOutcomes(a.id) = {"success"}
    /\ \E a \in anomalies : a.notified_at = -1 /\ AlertOutcomes(a.id) = {"failure"}
    /\ \A p \in Procs : pc[p] = "idle"

\* ---------------------------------------------------------------- C39
\* C39: once a UsageAnomaly row exists, status is the only field of it that a
\* repository operation (update_status, mark_notified) changes: a row of the
\* next state with the same id differs from the stored row in status at most.
C39_StatusIsTheOnlyFieldThatChanges ==
    [][\A a \in anomalies : \A b \in anomalies' :
          a.id = b.id => [b EXCEPT !.status = a.status] = a]_vars

\* ---------------------------------------------------------------- C35
\* the slot is about to call send_anomaly_alert for the anomaly and does so
\* in this step
SendsAlertFor(p, anomaly_id) ==
    /\ pc[p] = "send_alert"
    /\ loc[p].to_notify # <<>>
    /\ Head(loc[p].to_notify).id = anomaly_id
    /\ get_by_id(p, anomaly_id) # {}
    /\ <<pc[p], loc[p]>> # <<pc'[p], loc'[p]>>

\* C35: an anomaly is sent to the notification service at most once, by the
\* run that created it: whenever a run calls send_anomaly_alert for an
\* anomaly, no alert for it was attempted before (none returned success or
\* failure, none raised) and the anomaly is one of the response of the run in
\* progress; the list a run notifies is the list of anomalies it created.
C35_FailedAlertIsNeverSentAgain ==
    [][\A p \in Procs :
          /\ \A a \in anomalies \cup pend[p].anomaly :
                SendsAlertFor(p, a.id)
                => /\ AlertOutcomes(a.id) = {}
                   /\ a.id \in {b.id : b \in result[p].value.anomalies}
                   /\ a.period_start = cmd[p].period_start
                   /\ a.period_end = cmd[p].period_end
          /\ (pc[p] = "returned" /\ pc'[p] = "send_alert")
             => {loc'[p].to_notify[i] : i \in DOMAIN loc'[p].to_notify}
                = loc[p].detected_anomalies]_vars

\* the alert for an anomaly failed or raised, and a later run over the same
\* window, for which the tenant is still above the threshold, has returned
\* without that anomaly or any other of the tenant and is done notifying
C35_Witness ==
    \E a \in anomalies : \E p \in Procs :
        /\ AlertOutcomes(a.id) \in {{"failure"}, {"raised"}}
        /\ a.notified_at = -1
        /\ pc[p] = "send_alert"
        /\ loc[p].to_notify = <<>>
        /\ cmd[p].period_start = a.period_start
        /\ cmd[p].period_end = a.period_end
        /\ WindowSum(p, a.tenant_id) > hourly_threshold
        /\ \A b \in result[p].value.anomalies : b.tenant_id # a.tenant_id

\* ---------------------------------------------------------------- C36
\* C36: the allocator loop changes last_processed_month only in the step in
\* which run_once returns its summary, and sets it to the month of that
\* run; and when the previous turn failed and the loop wakes on one of the
\* first AllocationDays days of the same month, the turn calls run_once again
\* (it starts the run, or run_once raises once more): it does not skip.
C36_MarkerOnlyAfterRunOnceReturns ==
    [][\A w \in Procs :
          loop[w].worker = "allocator"
          => /\ loop'[w].last_processed_month # loop[w].last_processed_month
                => /\ loop[w].lpc = "run_once"
                   /\ wpc[w] = "done"
                   /\ loop'[w].logged = "complete"
                   /\ loop'[w].last_processed_month = loop[w].current_month
             /\ ( /\ loop[w].lpc = "iterate"
                  /\ loop'[w] # loop[w]
                  /\ loop[w].logged = "failed"
                  /\ loop[w].current_month = utc_month(now)
                  /\ utc_day(now) <= AllocationDays )
                => \/ loop'[w].lpc = "run_once" /\ wpc'[w] = "next"
                   \/ loop'[w].lpc = "sleep" /\ loop'[w].logged = "failed"]_vars

\* run_once raised on a gated day, and on the next day, still within the
\* first AllocationDays days of the month, the loop is inside run_once again
\* with the marker not advanced
C36_Witness ==
    \E w \in Procs :
        /\ loop[w].worker = "allocator"
        /\ loop[w].logged = "failed"
        /\ loop[w].lpc = "run_once"
        /\ loop[w].last_processed_month # utc_month(now)
        /\ utc_day(now) > 1
        /\ utc_day(now) <= AllocationDays
        /\ utc_month(loop[w].wake_at - HalfHoursPerDay) = utc_month(now)

\* ---------------------------------------------------------------- C38
\* C38: a reconciliation constructed with the concrete ledger repository
\* (SqlAlchemyCreditLedgerRepository) in which no query failed obtains every
\* ledger through get_all: once it has returned, its result is ok and
\* total_ledgers_checked is the number of ledgers get_all returned, each of
\* which has been compared.
C38_ConcreteRepositoryIteratesAllLedgers ==
    \A p \in Procs :
        (/\ cmd[p].op = "reconcile"
         /\ cmd[p].ledger_repo = "SqlAlchemyCreditLedgerRepository"
         /\ pc[p] = "returned"
         /\ faults = 0)
        => /\ result[p].kind = "ok"
           /\ result[p].value.total_ledgers_checked = loc[p].total_ledgers
           /\ loc[p].ledgers = <<>>

\* ---------------------------------------------------------------- C37
\* the steps of the request in slot p: the handler's database round trips and
\* the end of the request
HandlerStep(p) ==
    \/ CheckIdempotency(p)
    \/ GetLedger(p)
    \/ CreateLedger(p)
    \/ RefetchLedger(p)
    \/ CreateTransaction(p)
    \/ UpdateBalance(p)
    \/ Commit(p)
    \/ CloseSession(p)

\* the statement p is suspended in waits for the transaction of q to end: q
\* holds the row lock of the ledger p selects FOR UPDATE, or q has an
\* uncommitted insert of the tenant_id or idempotency_key p inserts
WaitsFor(p, q) ==
    /\ p # q
    /\ \/ /\ pc[p] = "get_ledger"
          /\ \E l \in ledgers : l.tenant_id = cmd[p].tenant_id /\ l.id \in rowLocks[q]
       \/ /\ pc[p] = "refetch_ledger"
          /\ \E l \in VisibleLedgers(p, cmd[p].tenant_id) : l.id \in rowLocks[q]
       \/ /\ pc[p] = "create_ledger"
          /\ \E l \in pend[q].ledger : l.tenant_id = cmd[p].tenant_id
       \/ /\ pc[p] = "create_transaction"
          /\ \E tx \in pend[q].tx : tx.idempotency_key = cmd[p].idempotency_key

\* how far a handler has come
Position(at) ==
    CASE at = "idle" -> 0
      [] at = "check_idempotency" -> 1
      [] at = "get_ledger" -> 2
      [] at = "create_ledger" -> 3
      [] at = "refetch_ledger" -> 4
      [] at = "create_transaction" -> 5
      [] at = "update_balance" -> 6
      [] at = "commit" -> 7
      [] OTHER -> 8

\* no request is stuck: it holds at most one ledger row lock; it can take
\* its next step unless it waits for another request, which is then still
\* open; and no set of requests wait for one another in a circle
NoDeadlock ==
    /\ \A p \in Procs : Cardinality(rowLocks[p]) <= 1
    /\ \A p \in Procs :
          pc[p] # "idle" => (ENABLED HandlerStep(p)) \/ \E q \in Procs : WaitsFor(p, q)
    /\ \A p \in Procs : \A q \in Procs : WaitsFor(p, q) => pc[q] # "idle"
    /\ \A S \in SUBSET Procs :
          S # {} => \E p \in S : \A q \in S : ~WaitsFor(p, q)

\* C37: Consume, Refund and Allocate commands running side by side never
\* deadlock.  A command holds at most one ledger row lock; a command that
\* cannot take its next step waits for the open transaction of another
\* one, and these waits never form a circle, so some command can always
\* step; and every step of a handler takes it further towards its result,
\* so that every started command returns once the requests it waits for
\* have committed or rolled back.
C37_NoDeadlockAmongCommands ==
    /\ []NoDeadlock
    /\ [][\A p \in Procs :
             (pc[p] # pc'[p] /\ pc[p] \notin {"idle", "returned", "cancelled"})
             => Position(pc'[p]) > Position(pc[p])]_vars

\* a command that holds the lock of its ledger waits, with its insert, for
\* the uncommitted row of another command that holds the lock of another
\* ledger
C37_Witness ==
    \E p \in Procs : \E q \in Procs :
        /\ WaitsFor(p, q)
        /\ pc[p] = "create_transaction"
        /\ rowLocks[p] # {}
        /\ rowLocks[q] # {}
        /\ ~ENABLED HandlerStep(p)

====
